---- MODULE Spec2Model ----
(***************************************************************************)
(* A model of the numerical core of RM_Tools: the Value-at-Risk family     *)
(* (financial_risk_models/value_at_risk.py) and the Monte Carlo simulators *)
(* (financial_risk_models/monte_carlo_sim.py).                             *)
(*                                                                         *)
(* Python floats are IEEE-754 binary64.  The index rule of the VaR family  *)
(* turns a float into an array index with ceil(), so one unit in the last  *)
(* place decides which observation is read.  Floats are therefore modelled *)
(* bit for bit: a finite float is a signed dyadic number m * 2^e whose     *)
(* mantissa m is a natural number of arbitrary size, kept as a sequence of *)
(* 15-bit limbs (least significant first), and every arithmetic operation  *)
(* is the exact operation followed by round-to-nearest-even to 53 bits.    *)
(***************************************************************************)
EXTENDS Integers, Sequences, FiniteSets, TLC

\* ------------------------------------------------------------------------
\* Natural numbers of arbitrary size: <<l1, ..., lk>> is the number
\* l1 + l2*Base + ... + lk*Base^(k-1), with lk # 0; zero is <<>>.
\* ------------------------------------------------------------------------

LimbBits == 15

Base == 2^LimbBits

RECURSIVE BNorm(_)
BNorm(a) ==
  IF a = <<>> THEN <<>>
  ELSE IF a[Len(a)] = 0 THEN BNorm(SubSeq(a, 1, Len(a) - 1))
  ELSE a

RECURSIVE BFromInt(_)
BFromInt(n) ==
  IF n = 0 THEN <<>> ELSE <<n % Base>> \o BFromInt(n \div Base)

RECURSIVE BToInt(_)
BToInt(a) ==
  IF a = <<>> THEN 0 ELSE Head(a) + Base * BToInt(Tail(a))

RECURSIVE BAddC(_, _, _)
BAddC(a, b, c) ==
  IF a = <<>> /\ b = <<>> THEN (IF c = 0 THEN <<>> ELSE <<c>>)
  ELSE LET x == IF a = <<>> THEN 0 ELSE Head(a)
           y == IF b = <<>> THEN 0 ELSE Head(b)
           s == x + y + c
       IN  <<s % Base>> \o BAddC(IF a = <<>> THEN <<>> ELSE Tail(a),
                                 IF b = <<>> THEN <<>> ELSE Tail(b),
                                 s \div Base)

BAdd(a, b) == BAddC(a, b, 0)

\* a - b - c for a >= b + c
RECURSIVE BSubB(_, _, _)
BSubB(a, b, c) ==
  IF a = <<>> THEN <<>>
  ELSE LET y == IF b = <<>> THEN 0 ELSE Head(b)
           d == Head(a) - y - c
       IN  <<d % Base>> \o BSubB(Tail(a),
                                 IF b = <<>> THEN <<>> ELSE Tail(b),
                                 IF d < 0 THEN 1 ELSE 0)

BSub(a, b) == BNorm(BSubB(a, b, 0))

\* -1, 0, 1 as a < b, a = b, a > b (both normalised)
RECURSIVE BCmpTop(_, _, _)
BCmpTop(a, b, i) ==
  IF i = 0 THEN 0
  ELSE IF a[i] < b[i] THEN -1
  ELSE IF a[i] > b[i] THEN 1
  ELSE BCmpTop(a, b, i - 1)

BCmp(a, b) ==
  IF Len(a) < Len(b) THEN -1
  ELSE IF Len(a) > Len(b) THEN 1
  ELSE BCmpTop(a, b, Len(a))

\* a * k + c for 0 <= k <= Base
RECURSIVE BMulSmallC(_, _, _)
BMulSmallC(a, k, c) ==
  IF a = <<>> THEN BFromInt(c)
  ELSE LET p == Head(a) * k + c
       IN  <<p % Base>> \o BMulSmallC(Tail(a), k, p \div Base)

BMulSmall(a, k) == BNorm(BMulSmallC(a, k, 0))

RECURSIVE BMul(_, _)
BMul(a, b) ==
  IF a = <<>> \/ b = <<>> THEN <<>>
  ELSE BAdd(BMulSmall(a, Head(b)),
            IF Tail(b) = <<>> THEN <<>> ELSE <<0>> \o BMul(a, Tail(b)))

\* quotient and remainder of a by a small k, 1 <= k <= Base
RECURSIVE BDivSmallR(_, _)
BDivSmallR(a, k) ==
  IF a = <<>> THEN [q |-> <<>>, r |-> 0]
  ELSE LET hi  == BDivSmallR(Tail(a), k)
           cur == hi.r * Base + Head(a)
       IN  [q |-> <<cur \div k>> \o hi.q, r |-> cur % k]

BDivSmall(a, k) ==
  LET d == BDivSmallR(a, k) IN [q |-> BNorm(d.q), r |-> d.r]

Zeros(n) == [i \in 1..n |-> 0]

\* a * 2^n
BShl(a, n) ==
  IF a = <<>> THEN <<>>
  ELSE Zeros(n \div LimbBits) \o BMulSmall(a, 2^(n % LimbBits))

\* floor(a / 2^n)
BShr(a, n) ==
  IF n \div LimbBits >= Len(a) THEN <<>>
  ELSE BDivSmall(SubSeq(a, n \div LimbBits + 1, Len(a)), 2^(n % LimbBits)).q

RECURSIVE BitLenSmall(_)
BitLenSmall(n) == IF n = 0 THEN 0 ELSE 1 + BitLenSmall(n \div 2)

BBitLen(a) ==
  IF a = <<>> THEN 0 ELSE LimbBits * (Len(a) - 1) + BitLenSmall(a[Len(a)])

BIsOdd(a) == a # <<>> /\ a[1] % 2 = 1

\* ------------------------------------------------------------------------
\* IEEE-754 binary64.  A float is [k, neg, m, e]: k = "fin" is the number
\* (-1)^neg * m * 2^e with m odd (or m = <<>>, e = 0 for zero), k = "inf" a
\* signed infinity, k = "nan" not-a-number.  -0.0 and 0.0 compare equal in
\* Python and are one value here.
\* ------------------------------------------------------------------------

MantBits == 53

MinExp == -1074

MaxExp == 1024

Max(a, b) == IF a >= b THEN a ELSE b

Min(a, b) == IF a <= b THEN a ELSE b

FZero == [k |-> "fin", neg |-> FALSE, m |-> <<>>, e |-> 0]

FNaN == [k |-> "nan", neg |-> FALSE, m |-> <<>>, e |-> 0]

FInf(neg) == [k |-> "inf", neg |-> neg, m |-> <<>>, e |-> 0]

\* the canonical form of (-1)^neg * m * 2^e: trailing zero bits moved to e
RECURSIVE Fin(_, _, _)
Fin(neg, m, e) ==
  IF m = <<>> THEN FZero
  ELSE IF m[1] = 0 THEN Fin(neg, Tail(m), e + LimbBits)
  ELSE IF m[1] % 2 = 0 THEN Fin(neg, BDivSmall(m, 2).q, e + 1)
  ELSE [k |-> "fin", neg |-> neg, m |-> m, e |-> e]

IsZero(x) == x.k = "fin" /\ x.m = <<>>

\* (-1)^neg * m * 2^e where m has at most 53 bits: infinite from 2^1024 on
Finite(neg, m, e) ==
  IF BBitLen(m) + e > MaxExp THEN FInf(neg) ELSE Fin(neg, m, e)

\* the quotient q of a mantissa by 2^sh, rounded up when the remainder is
\* above half (c > 0) or is half (c = 0) with q odd
Rounded(neg, q, c, e) ==
  Finite(neg, IF c > 0 \/ (c = 0 /\ BIsOdd(q)) THEN BAdd(q, <<1>>) ELSE q, e)

RoundQuotient(neg, m, e, sh, q) ==
  Rounded(neg, q, BCmp(BSub(m, BShl(q, sh)), BShl(<<1>>, sh - 1)), e + sh)

\* sh: the number of low bits of m that do not fit
RoundBy(neg, m, e, sh) ==
  IF sh <= 0 THEN Finite(neg, m, e)
  ELSE RoundQuotient(neg, m, e, sh, BShr(m, sh))

\* round-to-nearest, ties-to-even, of the exact value (-1)^neg * m * 2^e to
\* a binary64: 53 significant bits, gradual underflow below 2^-1022,
\* overflow to infinity from 2^1024
FRound(neg, m, e) ==
  IF m = <<>> THEN FZero
  ELSE RoundBy(neg, m, e, Max(BBitLen(m) - MantBits, MinExp - e))

\* int -> float (exact: |n| < 2^31)
FromInt(n) == Fin(n < 0, BFromInt(IF n < 0 THEN -n ELSE n), 0)

FNeg(x) == IF x.k = "nan" \/ IsZero(x) THEN x ELSE [x EXCEPT !.neg = ~x.neg]

\* the sum of (-1)^xneg * mx * 2^e and (-1)^yneg * my * 2^e, rounded; c
\* compares mx with my
AddAligned(xneg, yneg, mx, my, e, c) ==
  IF xneg # yneg /\ c = 0 THEN FZero
  ELSE FRound(IF xneg = yneg \/ c > 0 THEN xneg ELSE yneg,
              IF xneg = yneg THEN BAdd(mx, my)
              ELSE IF c > 0 THEN BSub(mx, my) ELSE BSub(my, mx),
              e)

AddMantissas(xneg, yneg, mx, my, e) ==
  AddAligned(xneg, yneg, mx, my, e, BCmp(mx, my))

\* the exact sum of two finite floats, rounded
FinAdd(x, y) ==
  IF x.m = <<>> THEN y
  ELSE IF y.m = <<>> THEN x
  ELSE AddMantissas(x.neg, y.neg, BShl(x.m, x.e - Min(x.e, y.e)),
                    BShl(y.m, y.e - Min(x.e, y.e)), Min(x.e, y.e))

FAdd(x, y) ==
  IF x.k = "nan" \/ y.k = "nan" THEN FNaN
  ELSE IF x.k = "inf" /\ y.k = "inf" THEN (IF x.neg = y.neg THEN x ELSE FNaN)
  ELSE IF x.k = "inf" THEN x
  ELSE IF y.k = "inf" THEN y
  ELSE FinAdd(x, y)

FSub(x, y) == FAdd(x, FNeg(y))

FMul(x, y) ==
  IF x.k = "nan" \/ y.k = "nan" THEN FNaN
  ELSE IF x.k = "inf" \/ y.k = "inf"
    THEN (IF IsZero(x) \/ IsZero(y) THEN FNaN ELSE FInf(x.neg # y.neg))
  ELSE FRound(x.neg # y.neg, BMul(x.m, y.m), x.e + y.e)

\* x / y for finite x and y # 0 whose odd mantissa is a single limb (every
\* divisor of the model: a count, 100, an initial value): the quotient to
\* 70 extra bits plus a sticky bit for the remainder, rounded
RoundDivided(neg, d, e) ==
  FRound(neg, BAdd(BMulSmall(d.q, 2), IF d.r = 0 THEN <<>> ELSE <<1>>), e)

FinDiv(x, y) ==
  RoundDivided(x.neg # y.neg,
               BDivSmall(BShl(x.m, 70), CASE Len(y.m) = 1 -> y.m[1]),
               x.e - y.e - 71)

\* numpy's float64 division: x/0 is nan or a signed infinity (with a
\* RuntimeWarning), never an exception
FDiv(x, y) ==
  IF x.k = "nan" \/ y.k = "nan" THEN FNaN
  ELSE IF x.k = "inf" THEN (IF y.k = "inf" THEN FNaN ELSE FInf(x.neg # y.neg))
  ELSE IF y.k = "inf" THEN FZero
  ELSE IF IsZero(y) THEN (IF IsZero(x) THEN FNaN ELSE FInf(x.neg))
  ELSE IF IsZero(x) THEN FZero
  ELSE FinDiv(x, y)

\* -1, 0, 1 as x < y, x = y, x > y, for x and y not nan
FCmp(x, y) ==
  IF x = y THEN 0
  ELSE IF x.k = "inf" THEN (IF x.neg THEN -1 ELSE 1)
  ELSE IF y.k = "inf" THEN (IF y.neg THEN 1 ELSE -1)
  ELSE IF x.neg /\ ~y.neg THEN -1
  ELSE IF ~x.neg /\ y.neg THEN 1
  ELSE (IF x.neg THEN -1 ELSE 1)
       * BCmp(BShl(x.m, x.e - Min(x.e, y.e)), BShl(y.m, y.e - Min(x.e, y.e)))

\* Python's comparisons: every comparison with nan is False
FLess(x, y) == x.k # "nan" /\ y.k # "nan" /\ FCmp(x, y) < 0

FLeq(x, y) == x.k # "nan" /\ y.k # "nan" /\ FCmp(x, y) <= 0

\* int(np.ceil(x)) for a finite x of small magnitude
CeilInt(x) ==
  IF x.e >= 0 THEN (IF x.neg THEN -1 ELSE 1) * BToInt(BShl(x.m, x.e))
  ELSE (IF x.neg THEN -1 ELSE 1) * BToInt(BShr(x.m, -x.e))
       + (IF x.neg THEN 0 ELSE 1)

\* the float a decimal literal n/d denotes (d a power of ten below 2^15):
\* the literal's exact value correctly rounded, which is what Python's
\* parser and a correctly rounded division both give
Lit(n, d) == FDiv(FromInt(n), FromInt(d))

\* ------------------------------------------------------------------------
\* numpy on float64 arrays (sequences of floats, 1-based here)
\* ------------------------------------------------------------------------

\* np.sort: ascending (the samples of the model hold no nan)
RECURSIVE SortedInsert(_, _)
SortedInsert(x, s) ==
  IF s = <<>> THEN <<x>>
  ELSE IF FLeq(x, Head(s)) THEN <<x>> \o s
  ELSE <<Head(s)>> \o SortedInsert(x, Tail(s))

RECURSIVE np_sort(_)
np_sort(a) ==
  IF a = <<>> THEN <<>> ELSE SortedInsert(Head(a), np_sort(Tail(a)))

\* the left-to-right sum acc + a[1] + a[2] + ..., each step rounded
RECURSIVE SeqSum(_, _)
SeqSum(acc, a) ==
  IF a = <<>> THEN acc ELSE SeqSum(FAdd(acc, Head(a)), Tail(a))

\* r[j] + a[i+j] for the 8 lanes j = 1..8, for i = 8, 16, ... below lim
RECURSIVE Lanes(_, _, _, _)
Lanes(r, a, i, lim) ==
  IF i >= lim THEN r
  ELSE Lanes([j \in 1..8 |-> FAdd(r[j], a[i + j])], a, i + 8, lim)

\* (r[lo] + ...) + (... + r[hi]), the two halves summed the same way
RECURSIVE TreeSum(_, _, _)
TreeSum(r, lo, hi) ==
  IF lo = hi THEN r[lo]
  ELSE FAdd(TreeSum(r, lo, (lo + hi) \div 2), TreeSum(r, (lo + hi) \div 2 + 1, hi))

\* numpy's pairwise summation of n <= 128 elements: a plain loop below 8
\* elements, else 8 interleaved partial sums added as a tree, then the rest
pairwise_sum(a) ==
  IF Len(a) < 8 THEN SeqSum(FZero, a)
  ELSE SeqSum(TreeSum(Lanes([j \in 1..8 |-> a[j]], a, 8, Len(a) - (Len(a) % 8)), 1, 8),
              SubSeq(a, Len(a) - (Len(a) % 8) + 1, Len(a)))

\* np.add.reduce: the reduction starts from the identity 0.0
np_sum(a) == FAdd(FZero, pairwise_sum(a))

\* np.mean: the sum divided by the count; nan (and a warning) when empty
np_mean(a) == FDiv(np_sum(a), FromInt(Len(a)))

\* int(np.floor(x)) for a finite x of small magnitude
FloorInt(x) ==
  IF x.e >= 0 THEN (IF x.neg THEN -1 ELSE 1) * BToInt(BShl(x.m, x.e))
  ELSE (IF x.neg THEN -1 ELSE 1) * BToInt(BShr(x.m, -x.e))
       - (IF x.neg THEN 1 ELSE 0)

HasNaN(a) == \E i \in 1..Len(a) : a[i].k = "nan"

\* np.min and np.max of a non-empty array: nan when the array holds one
RECURSIVE MinFrom(_, _)
MinFrom(acc, a) ==
  IF a = <<>> THEN acc
  ELSE MinFrom(IF FLess(Head(a), acc) THEN Head(a) ELSE acc, Tail(a))

np_min(a) == IF HasNaN(a) THEN FNaN ELSE MinFrom(Head(a), Tail(a))

RECURSIVE MaxFrom(_, _)
MaxFrom(acc, a) ==
  IF a = <<>> THEN acc
  ELSE MaxFrom(IF FLess(acc, Head(a)) THEN Head(a) ELSE acc, Tail(a))

np_max(a) == IF HasNaN(a) THEN FNaN ELSE MaxFrom(Head(a), Tail(a))

\* np.median: the mean of the middle element, or of the two middle elements,
\* of the ordered array; nan when the array holds one
np_median(a) ==
  IF HasNaN(a) THEN FNaN
  ELSE np_mean(SubSeq(np_sort(a), (Len(a) \div 2) + (Len(a) % 2), (Len(a) \div 2) + 1))

\* numpy's _lerp, given diff_b_a = b - a: a + diff_b_a * t, and
\* b - diff_b_a * (1 - t) from t = 0.5 on
lerp_result(a, b, t, diff_b_a) ==
  IF FLeq(Lit(1, 2), t) THEN FSub(b, FMul(diff_b_a, FSub(FromInt(1), t)))
  ELSE FAdd(a, FMul(diff_b_a, t))

np_lerp(a, b, t) == lerp_result(a, b, t, FSub(b, a))

\* arr[i] as Python indexes it: -1 is the last element
Item(arr, i) == IF i = -1 THEN arr[Len(arr)] ELSE arr[i + 1]

\* the interpolation between the neighbours of the virtual index, with
\* gamma = virtual_index - previous_index
take_neighbours(arr, virtual_index, previous_index, next_index) ==
  np_lerp(Item(arr, previous_index), Item(arr, next_index),
          FSub(virtual_index, FromInt(previous_index)))

\* the two neighbours of the virtual index in the ordered array: both the
\* last element once it reaches n - 1 (above), both the first below 0
get_indexes(arr, virtual_index, above, below) ==
  take_neighbours(arr, virtual_index,
                  IF above THEN -1 ELSE IF below THEN 0 ELSE FloorInt(virtual_index),
                  IF above THEN -1 ELSE IF below THEN 0 ELSE FloorInt(virtual_index) + 1)

quantile_at(arr, virtual_index) ==
  get_indexes(arr, virtual_index, FLeq(FromInt(Len(arr) - 1), virtual_index),
              FLess(virtual_index, FZero))

\* the linear method's virtual index n*q + (1 + q*(1 - 1 - 1)) - 1
virtual_index_of(n, quantile) ==
  FSub(FAdd(FMul(FromInt(n), quantile), FAdd(FromInt(1), FMul(quantile, FromInt(-1)))),
       FromInt(1))

\* np.percentile(a, q) with the default linear method on a non-empty array,
\* for the quantile q/100
np_percentile(a, q) ==
  IF HasNaN(a) THEN FNaN
  ELSE quantile_at(np_sort(a), virtual_index_of(Len(a), FDiv(FromInt(q), FromInt(100))))

\* ------------------------------------------------------------------------
\* financial_risk_models/value_at_risk.py
\* ------------------------------------------------------------------------

\* what a call did: returned a float, or raised
Returned(v) == [st |-> "returned", err |-> "", val |-> v]

Raised(e) == [st |-> "raised", err |-> e, val |-> FZero]

NotCalled == [st |-> "none", err |-> "", val |-> FZero]

\* index = int(np.ceil(len(sorted_returns) * (1 - confidence_level)) - 1),
\* then clamped at 0
historical_index(n, confidence_level) ==
  LET index == CeilInt(FMul(FromInt(n), FSub(FromInt(1), confidence_level))) - 1
  IN  IF index < 0 THEN 0 ELSE index

calculate_historical_var(returns, confidence_level, investment_value) ==
  LET sorted_returns == np_sort(returns)
      index          == historical_index(Len(sorted_returns), confidence_level)
  IN  IF index >= Len(sorted_returns) THEN Raised("IndexError")
      ELSE Returned(FMul(FromInt(investment_value), FNeg(sorted_returns[index + 1])))

conditional_index(n, confidence_level) ==
  LET index == CeilInt(FMul(FromInt(n), FSub(FromInt(1), confidence_level))) - 1
  IN  IF index < 0 THEN 0 ELSE index

\* a tail that stops short of the observation at the index
cvar_returns_beyond(sorted_returns, index) ==
  SubSeq(sorted_returns, 1, Min(index, Len(sorted_returns)))

\* sorted_returns[:index+1]: a slice never raises
cvar_returns(sorted_returns, index) ==
  SubSeq(sorted_returns, 1, Min(index + 1, Len(sorted_returns)))

\* the loss reported with the sign of the return
calculate_conditional_var_signed(returns, confidence_level, investment_value) ==
  LET sorted_returns == np_sort(returns)
      index          == conditional_index(Len(sorted_returns), confidence_level)
      cvar_return    == np_mean(cvar_returns(sorted_returns, index))
  IN  Returned(FMul(FromInt(investment_value), cvar_return))

calculate_conditional_var(returns, confidence_level, investment_value) ==
  LET sorted_returns == np_sort(returns)
      index          == conditional_index(Len(sorted_returns), confidence_level)
      cvar_return    == np_mean(cvar_returns(sorted_returns, index))
  IN  Returned(FMul(FromInt(investment_value), FNeg(cvar_return)))

\* scipy.stats.norm.ppf at the probabilities the model's confidence levels
\* give, as <<percent, z * 10^6>> (scipy's values to six decimals)
PpfTable ==
  { <<1, -2326348>>, <<5, -1644854>>, <<10, -1281552>>, <<50, 0>>,
    <<90, 1281552>>, <<95, 1644854>>, <<99, 2326348>> }

FAbs(x) == IF x.k = "nan" THEN x ELSE [x EXCEPT !.neg = FALSE]

\* norm.ppf(p): nan outside [0, 1], -inf at 0, +inf at 1
norm_ppf(p) ==
  IF p.k = "nan" \/ FLess(p, FZero) \/ FLess(FromInt(1), p) THEN FNaN
  ELSE IF IsZero(p) THEN FInf(TRUE)
  ELSE IF p = FromInt(1) THEN FInf(FALSE)
  ELSE LET row == CHOOSE r \in PpfTable :
                    FLess(FAbs(FSub(p, Lit(r[1], 100))), Lit(1, 200))
       IN  Lit(row[2], 1000000)

\* np.sqrt of an int that is a perfect square (exact)
np_sqrt(n) == FromInt(CHOOSE r \in 0..n : r * r = n)

\* the z-score taken at the confidence level instead of its complement
calculate_parametric_var_upper(mean_return, std_dev, confidence_level, investment_value, time_horizon) ==
  LET z_score    == norm_ppf(confidence_level)
      var_return == FNeg(FAdd(FMul(mean_return, FromInt(time_horizon)),
                              FMul(FMul(z_score, std_dev), np_sqrt(time_horizon))))
  IN  Returned(FMul(FromInt(investment_value), var_return))

calculate_parametric_var(mean_return, std_dev, confidence_level, investment_value, time_horizon) ==
  LET z_score    == norm_ppf(FSub(FromInt(1), confidence_level))
      var_return == FNeg(FAdd(FMul(mean_return, FromInt(time_horizon)),
                              FMul(FMul(z_score, std_dev), np_sqrt(time_horizon))))
  IN  Returned(FMul(FromInt(investment_value), var_return))

\* ------------------------------------------------------------------------
\* np.random and np.exp as financial_risk_models/monte_carlo_sim.py uses
\* them.  A log-return is a whole number of units of ln 2, so that np.exp of
\* it is a power of two and every price is an exact double.
\* ------------------------------------------------------------------------

\* the standard normals that np.random hands out after seed(42), rounded to
\* whole numbers (0.497, -0.138, 0.648, 1.523, -0.234, -0.234, 1.579, ...)
Normals42 ==
  << 0, 0, 1, 2, 0, 0, 2, 1, 0, 1, 0, 0, 0, -2, -2, -1, -1, 0, -1, -1 >>

Period == Len(Normals42)

\* the generator's state: the seed it was last given and how many normals it
\* has handed out since (the cached second normal of a pair is part of that
\* count); seeding discards everything the state held
np_random_seed(seed) == [seed |-> seed, pos |-> 0]

\* the k-th normal (k = 0, 1, ...) the generator hands out from state gen:
\* a function of the state alone; a different seed gives a different stream
StdNormal(gen, k) == Normals42[((gen.seed - 42 + gen.pos + k) % Period) + 1]

Advance(gen, n) == [gen EXCEPT !.pos = (gen.pos + n) % Period]

\* np.random.normal(loc, scale, size=(rows, cols)): loc + scale * z, the
\* normals taken row by row
np_random_normal(gen, loc, scale, rows, cols) ==
  [ out |-> [t \in 1..rows |-> [p \in 1..cols |->
               loc + scale * StdNormal(gen, (t - 1) * cols + (p - 1))]],
    gen |-> Advance(gen, rows * cols) ]

\* compounding by 1 + r in place of the exponential
np_exp_additive(r) == FromInt(1 + r)

\* np.exp of r units of ln 2: 2^r rounded to a double, which is 0.0 below
\* the smallest subnormal and inf from 2^1024 on
np_exp(r) == FRound(FALSE, <<1>>, r)

\* ------------------------------------------------------------------------
\* financial_risk_models/monte_carlo_sim.py.  An annual drift mu is a
\* multiple of 252 units of ln 2 and an annual volatility sigma a number of
\* units of sqrt(252) * ln 2, so that the daily figures are whole units.
\* ------------------------------------------------------------------------

TradingDays == 252

\* the generator used as it is found
seed_left_out(gen) == gen

\* np.random.seed(42), whatever state the generator was in
seed_for_reproducibility(gen) == np_random_seed(42)

\* every path compounded by the first path's draw
RECURSIVE PathRowsShared(_, _, _)
PathRowsShared(rows, random_returns, days) ==
  LET t == Len(rows)
  IN  IF t > days THEN rows
      ELSE PathRowsShared(Append(rows, [p \in 1..Len(rows[t]) |->
                              FMul(rows[t][p], np_exp(random_returns[t][1]))]),
                    random_returns, days)

\* rows 0..days of the matrix, built from row 0:
\* price_paths[t] = price_paths[t-1] * np.exp(random_returns[t-1])
RECURSIVE PathRows(_, _, _)
PathRows(rows, random_returns, days) ==
  LET t == Len(rows)
  IN  IF t > days THEN rows
      ELSE PathRows(Append(rows, [p \in 1..Len(rows[t]) |->
                              FMul(rows[t][p], np_exp(random_returns[t][p]))]),
                    random_returns, days)

\* a loss never reported below zero
potential_loss_clamped(initial_price, percentile_price) ==
  IF FLess(FSub(FromInt(initial_price), percentile_price), FZero) THEN FZero
  ELSE FSub(FromInt(initial_price), percentile_price)

\* potential_loss = initial_price - percentile_price
potential_loss_of(initial_price, percentile_price) ==
  FSub(FromInt(initial_price), percentile_price)

\* potential_loss_percentage = (potential_loss / initial_price) * 100
potential_loss_percentage_of(potential_loss, initial_price) ==
  FMul(FDiv(potential_loss, FromInt(initial_price)), FromInt(100))

\* the dictionary returned, given the loss at the percentile
asset_result(initial_price, price_paths, final_prices, percentile_price, potential_loss) ==
  [ initial_price             |-> initial_price,
    price_paths               |-> price_paths,
    final_prices              |-> final_prices,
    mean_final_price          |-> np_mean(final_prices),
    median_final_price        |-> np_median(final_prices),
    min_price                 |-> np_min(final_prices),
    max_price                 |-> np_max(final_prices),
    percentile_price          |-> percentile_price,
    potential_loss            |-> potential_loss,
    potential_loss_percentage |->
      potential_loss_percentage_of(potential_loss, initial_price) ]

asset_potential_loss(initial_price, price_paths, final_prices, percentile_price) ==
  asset_result(initial_price, price_paths, final_prices, percentile_price,
               potential_loss_of(initial_price, percentile_price))

\* the statistics of final_prices = price_paths[-1]
asset_statistics(initial_price, price_paths, percentile) ==
  asset_potential_loss(initial_price, price_paths, price_paths[Len(price_paths)],
                       np_percentile(price_paths[Len(price_paths)], percentile))

\* the function from the draws on: drawn is what np.random.normal returned
\* and the generator it left
asset_price_paths(initial_price, days, simulations, percentile, drawn) ==
  IF simulations = 0 \/ percentile < 0 \/ percentile > 100
    THEN [out |-> Raised("ValueError"), gen |-> drawn.gen]
  ELSE [ gen |-> drawn.gen,
         out |-> Returned(asset_statistics(initial_price,
                   PathRows(<<[p \in 1..simulations |-> FromInt(initial_price)]>>,
                            drawn.out, days),
                   percentile)) ]

\* the function from np.random.normal on, which draws from the generator as
\* it is at that moment; the daily return is mu / 252 and the daily
\* volatility sigma / sqrt(252), here sigma units
asset_random_returns(gen, initial_price, mu, sigma, days, simulations, percentile) ==
  IF sigma < 0 \/ days < 0 \/ simulations < 0
    THEN [out |-> Raised("ValueError"), gen |-> gen]
  ELSE asset_price_paths(initial_price, days, simulations, percentile,
         np_random_normal(gen, mu \div TradingDays, sigma, days, simulations))

\* the function's effect: what it returns or raises (out) and the state it
\* leaves the process-wide generator in (gen)
simulate_asset_price_monte_carlo(gen, initial_price, mu, sigma, days, simulations, percentile) ==
  asset_random_returns(seed_for_reproducibility(gen), initial_price, mu, sigma,
                       days, simulations, percentile)

\* A dict that is iterated is a sequence of <<key, value>> items in insertion
\* order; a dict that is only looked up is a function on its keys.

\* list(initial_values.keys())
Keys(items) == [i \in 1..Len(items) |-> items[i][1]]

\* the coefficient looked up under (assets[i], assets[j]) only
corr_matrix_one_ordering(assets, correlations) ==
  [i \in 1..Len(assets) |-> [j \in 1..Len(assets) |->
     IF i = j THEN 1
     ELSE IF <<assets[i], assets[j]>> \in DOMAIN correlations
       THEN correlations[<<assets[i], assets[j]>>]
     ELSE 0]]

\* the identity matrix overwritten, for i < j, by the coefficient found under
\* (assets[i], assets[j]) or else under (assets[j], assets[i])
corr_matrix_of(assets, correlations) ==
  [i \in 1..Len(assets) |-> [j \in 1..Len(assets) |->
     LET asset_pair   == <<assets[Min(i, j)], assets[Max(i, j)]>>
         reverse_pair == <<assets[Max(i, j)], assets[Min(i, j)]>>
     IN  IF i = j THEN 1
         ELSE IF asset_pair \in DOMAIN correlations THEN correlations[asset_pair]
         ELSE IF reverse_pair \in DOMAIN correlations THEN correlations[reverse_pair]
         ELSE 0]]

\* np.outer(daily_volatilities, daily_volatilities) * corr_matrix
cov_matrix_of(daily_volatilities, corr_matrix) ==
  [i \in 1..Len(corr_matrix) |-> [j \in 1..Len(corr_matrix) |->
     daily_volatilities[i] * daily_volatilities[j] * corr_matrix[i][j]]]

\* the normal that drives component i: that of the first component it is
\* perfectly correlated with, itself if there is none before it, and 0 for a
\* component without variance
Driver(cov, i) ==
  LET same == {j \in 1..i : cov[j][j] > 0
                            /\ cov[j][i] * cov[j][i] = cov[j][j] * cov[i][i]}
  IN  IF same = {} THEN 0 ELSE CHOOSE j \in same : \A k \in same : j <= k

\* the square root of a variance of the model, a perfect square
RootOf(c) == CHOOSE r \in 0..c : r * r = c

\* np.random.multivariate_normal(mean, cov, size=(rows, cols)): per sample
\* len(mean) normals z, and mean + A z for a factor A of cov (A A^T = cov for
\* the covariance matrices of the model, whose correlations are -1, 0 or 1)
np_random_multivariate_normal(gen, mean, cov, rows, cols) ==
  LET n == Len(mean)
      z(t, p, j) == StdNormal(gen, ((t - 1) * cols + (p - 1)) * n + (j - 1))
      x(t, p, i) ==
        LET j == Driver(cov, i)
        IN  IF j = 0 THEN mean[i]
            ELSE mean[i] + (cov[j][i] \div RootOf(cov[j][j])) * z(t, p, j)
  IN  [ out |-> [t \in 1..rows |-> [p \in 1..cols |-> [i \in 1..n |-> x(t, p, i)]]],
        gen |-> Advance(gen, rows * cols * n) ]

\* one asset's rows 0..days over the draws of component i
AssetPaths(initial_value, random_returns, i, days, simulations) ==
  PathRows(<<[p \in 1..simulations |-> FromInt(initial_value)]>>,
           [t \in 1..days |-> [p \in 1..simulations |-> random_returns[t][p][i]]],
           days)

\* every asset contributing an equal share of its value
RECURSIVE AddPathsWeighted(_, _, _)
AddPathsWeighted(portfolio_paths, price_paths, i) ==
  IF i > Len(price_paths) THEN portfolio_paths
  ELSE AddPathsWeighted([t \in 1..Len(portfolio_paths) |->
                   [p \in 1..Len(portfolio_paths[t]) |->
                      FAdd(portfolio_paths[t][p],
                           FDiv(price_paths[i][t][p], FromInt(Len(price_paths))))]],
                price_paths, i + 1)

\* portfolio_paths += price_paths[asset], asset by asset in insertion order
RECURSIVE AddPaths(_, _, _)
AddPaths(portfolio_paths, price_paths, i) ==
  IF i > Len(price_paths) THEN portfolio_paths
  ELSE AddPaths([t \in 1..Len(portfolio_paths) |->
                   [p \in 1..Len(portfolio_paths[t]) |->
                      FAdd(portfolio_paths[t][p], price_paths[i][t][p])]],
                price_paths, i + 1)

\* sum(initial_values.values())
RECURSIVE SumValues(_)
SumValues(items) ==
  IF items = <<>> THEN 0 ELSE Head(items)[2] + SumValues(Tail(items))

portfolio_result(initial_portfolio_value, portfolio_paths, final_portfolio_values, percentile_value, potential_loss) ==
  [ initial_portfolio_value   |-> initial_portfolio_value,
    portfolio_paths           |-> portfolio_paths,
    final_portfolio_values    |-> final_portfolio_values,
    mean_final_value          |-> np_mean(final_portfolio_values),
    median_final_value        |-> np_median(final_portfolio_values),
    min_value                 |-> np_min(final_portfolio_values),
    max_value                 |-> np_max(final_portfolio_values),
    percentile_value          |-> percentile_value,
    potential_loss            |-> potential_loss,
    potential_loss_percentage |->
      potential_loss_percentage_of(potential_loss, initial_portfolio_value) ]

portfolio_potential_loss(initial_portfolio_value, portfolio_paths, final_portfolio_values, percentile_value) ==
  portfolio_result(initial_portfolio_value, portfolio_paths, final_portfolio_values,
                   percentile_value,
                   FSub(FromInt(initial_portfolio_value), percentile_value))

\* the statistics of final_portfolio_values = portfolio_paths[-1]
portfolio_statistics(initial_portfolio_value, portfolio_paths, percentile) ==
  portfolio_potential_loss(initial_portfolio_value, portfolio_paths,
                           portfolio_paths[Len(portfolio_paths)],
                           np_percentile(portfolio_paths[Len(portfolio_paths)], percentile))

\* what a call built and does not return: the correlation matrix and, in
\* the order of the assets, every asset's path matrix
LocalsOf(corr_matrix, price_paths) ==
  [corr_matrix |-> corr_matrix, price_paths |-> price_paths]

\* the function from the per-asset paths on: their sum and its statistics
portfolio_sum(corr_matrix, initial_values, days, simulations, percentile, gen, price_paths) ==
  [ gen    |-> gen,
    locals |-> LocalsOf(corr_matrix, price_paths),
    out    |-> IF simulations = 0 \/ percentile < 0 \/ percentile > 100
                 THEN Raised("ValueError")
               ELSE Returned(portfolio_statistics(SumValues(initial_values),
                      AddPaths([t \in 1..(days + 1) |->
                                  [p \in 1..simulations |-> FZero]],
                               price_paths, 1),
                      percentile)) ]

\* the function from the draws on: every asset's paths over its component
\* of the draws
portfolio_price_paths(corr_matrix, initial_values, days, simulations, percentile, drawn) ==
  portfolio_sum(corr_matrix, initial_values, days, simulations, percentile, drawn.gen,
                [i \in 1..Len(initial_values) |->
                   AssetPaths(initial_values[i][2], drawn.out, i, days, simulations)])

\* the function from np.random.multivariate_normal on, which draws from
\* the generator as it is at that moment
portfolio_random_returns(gen, assets, corr_matrix, initial_values, expected_returns, volatilities, days, simulations, percentile) ==
  IF Len(assets) = 0 \/ days < 0 \/ simulations < 0
    THEN [out |-> Raised("ValueError"), gen |-> gen,
          locals |-> LocalsOf(corr_matrix, <<>>)]
  ELSE portfolio_price_paths(corr_matrix, initial_values, days, simulations, percentile,
         np_random_multivariate_normal(
           gen,
           [i \in 1..Len(assets) |-> expected_returns[assets[i]] \div TradingDays],
           cov_matrix_of([i \in 1..Len(assets) |-> volatilities[assets[i]]],
                         corr_matrix),
           days, simulations))

\* the function from the correlation matrix on; the daily returns are
\* expected_returns[asset] / 252 and the daily volatilities
\* volatilities[asset] / sqrt(252), here volatilities[asset] units
portfolio_of_assets(gen, assets, corr_matrix, initial_values, expected_returns, volatilities, days, simulations, percentile) ==
  IF \E i \in 1..Len(assets) : assets[i] \notin DOMAIN expected_returns
                               \/ assets[i] \notin DOMAIN volatilities
    THEN [out |-> Raised("KeyError"), gen |-> gen,
          locals |-> LocalsOf(corr_matrix, <<>>)]
  ELSE portfolio_random_returns(seed_for_reproducibility(gen), assets, corr_matrix,
         initial_values, expected_returns, volatilities, days, simulations, percentile)

simulate_portfolio_monte_carlo(gen, initial_values, expected_returns, volatilities, correlations, days, simulations, percentile) ==
  portfolio_of_assets(gen, Keys(initial_values),
                      corr_matrix_of(Keys(initial_values), correlations),
                      initial_values, expected_returns, volatilities,
                      days, simulations, percentile)

\* ------------------------------------------------------------------------
\* financial_risk_models/credit_scoring_sim.py.  The arguments are Python
\* ints; the scores are floats.
\* ------------------------------------------------------------------------

\* Python's min(a, b) and max(a, b): b when b < a, respectively b > a
py_min(a, b) == IF FLess(b, a) THEN b ELSE a

py_max(a, b) == IF FLess(a, b) THEN b ELSE a

\* int(x): the fraction dropped
py_int(x) == IF x.neg THEN CeilInt(x) ELSE FloorInt(x)

\* dti = (debt / income) * 100 if income > 0 else 100
dti_of(income, debt) ==
  IF income > 0 THEN FMul(FDiv(FromInt(debt), FromInt(income)), FromInt(100))
  ELSE FromInt(100)

\* the utilization taken off 100 as it comes
utilization_score_unclamped(credit_utilization) ==
  FSub(FromInt(100), FromInt(credit_utilization))

\* utilization_score = max(0, min(100, 100 - credit_utilization))
utilization_score_of(credit_utilization) ==
  py_max(FromInt(0), py_min(FromInt(100), FSub(FromInt(100), FromInt(credit_utilization))))

history_score_of(credit_history_length) ==
  IF credit_history_length >= 10 THEN FromInt(100)
  ELSE IF credit_history_length <= 0 THEN FromInt(0)
  ELSE FMul(FDiv(FromInt(credit_history_length), FromInt(10)), FromInt(100))

rating_of(credit_score) ==
  IF credit_score >= 800 THEN "Excellent"
  ELSE IF credit_score >= 740 THEN "Very Good"
  ELSE IF credit_score >= 670 THEN "Good"
  ELSE IF credit_score >= 580 THEN "Fair"
  ELSE "Poor"

\* the dictionary returned, given the score on the 300-850 scale
credit_result(credit_score, components, dti) ==
  [ credit_score |-> credit_score,
    rating       |-> rating_of(credit_score),
    components   |-> components,
    dti_ratio    |-> dti ]

\* weighted_score = 0.35 * payment_history_score + 0.30 * utilization_score
\*                  + 0.25 * dti_score + 0.10 * history_score
weighted_score_of(c) ==
  FAdd(FAdd(FAdd(FMul(Lit(35, 100), c.payment_history),
                 FMul(Lit(30, 100), c.credit_utilization)),
            FMul(Lit(25, 100), c.debt_to_income)),
       FMul(Lit(10, 100), c.credit_history_length))

\* credit_score = int(300 + (weighted_score / 100) * 550)
scaled_score(components, dti) ==
  credit_result(py_int(FAdd(FromInt(300),
                            FMul(FDiv(weighted_score_of(components), FromInt(100)),
                                 FromInt(550)))),
                components, dti)

component_scores(dti, payment_history, credit_utilization, credit_history_length) ==
  scaled_score([ payment_history       |-> FromInt(payment_history),
                 credit_utilization    |-> utilization_score_of(credit_utilization),
                 debt_to_income        |-> py_max(FromInt(0), py_min(FromInt(100),
                                             FSub(FromInt(100), dti))),
                 credit_history_length |-> history_score_of(credit_history_length) ],
               dti)

simple_credit_score(income, debt, payment_history, credit_utilization, credit_history_length) ==
  Returned(component_scores(dti_of(income, debt), payment_history, credit_utilization,
                            credit_history_length))

\* ------------------------------------------------------------------------
\* financial_risk_models/stress_testing.py.  A portfolio is a dict that is
\* iterated, of int values; the scenario is a dict that is looked up, of
\* float shocks written in hundredths.
\* ------------------------------------------------------------------------

\* Python's None
None == [none |-> TRUE]

\* sum(...) of floats from the int 0, left to right
py_sum(a) == SeqSum(FZero, a)

\* a shock applied to whatever the scenario names first
shock_of_any(scenario_shocks, asset) ==
  IF DOMAIN scenario_shocks = {} THEN FromInt(0)
  ELSE Lit(scenario_shocks[CHOOSE k \in DOMAIN scenario_shocks : TRUE], 100)

\* shock = scenario_shocks.get(asset, 0)
shock_of(scenario_shocks, asset) ==
  IF asset \in DOMAIN scenario_shocks THEN Lit(scenario_shocks[asset], 100)
  ELSE FromInt(0)

\* the entry of asset_impacts, given impact_amount = stressed_value - value
impact_entry(value, shock, stressed_value, impact_amount) ==
  [ original_value    |-> value,
    shock_percentage  |-> FMul(shock, FromInt(100)),
    stressed_value    |-> stressed_value,
    impact_amount     |-> impact_amount,
    impact_percentage |-> IF value # 0
                            THEN FMul(FDiv(impact_amount, FromInt(value)), FromInt(100))
                          ELSE FromInt(0) ]

stressed_entry(value, shock, stressed_value) ==
  impact_entry(value, shock, stressed_value, FSub(stressed_value, FromInt(value)))

\* stressed_value = value * (1 + shock)
shocked_entry(value, shock) ==
  stressed_entry(value, shock, FMul(FromInt(value), FAdd(FromInt(1), shock)))

\* the dictionary returned, given total_impact = stressed_total - original_total
scenario_result(portfolio, asset_impacts, original_total, stressed_total, total_impact) ==
  [ original_portfolio      |-> portfolio,
    original_total          |-> original_total,
    stressed_portfolio      |-> [i \in 1..Len(asset_impacts) |->
                                   <<asset_impacts[i][1],
                                     asset_impacts[i][2].stressed_value>>],
    stressed_total          |-> stressed_total,
    total_impact            |-> total_impact,
    total_impact_percentage |-> IF original_total # 0
                                  THEN FMul(FDiv(total_impact, FromInt(original_total)),
                                            FromInt(100))
                                ELSE FromInt(0),
    asset_impacts           |-> asset_impacts ]

scenario_totals(portfolio, asset_impacts, original_total, stressed_total) ==
  scenario_result(portfolio, asset_impacts, original_total, stressed_total,
                  FSub(stressed_total, FromInt(original_total)))

\* original_total = sum(portfolio.values()),
\* stressed_total = sum(stressed_portfolio.values())
scenario_impacts(portfolio, asset_impacts) ==
  scenario_totals(portfolio, asset_impacts, SumValues(portfolio),
                  py_sum([i \in 1..Len(asset_impacts) |->
                            asset_impacts[i][2].stressed_value]))

apply_scenario_to_portfolio(portfolio, scenario_shocks) ==
  IF portfolio = <<>> \/ DOMAIN scenario_shocks = {} THEN Returned(None)
  ELSE Returned(scenario_impacts(portfolio,
         [i \in 1..Len(portfolio) |->
            <<portfolio[i][1],
              shocked_entry(portfolio[i][2],
                            shock_of(scenario_shocks, portfolio[i][1]))>>]))

\* ------------------------------------------------------------------------
\* analytical_techniques/root_cause_analysis.py.  A why is a dict of a
\* question and an answer; the question "Why #i: Why <about>?" is kept as
\* its number and what it is about.
\* ------------------------------------------------------------------------

\* the reply compared as it was typed
py_as_typed(text) == text

\* str.lower() on the replies a keyboard gives
py_lower(text) ==
  CASE text = "Y" -> "y"
    [] text = "N" -> "n"
    [] text = "Yes" -> "yes"
    [] OTHER -> text

\* f"Why #{i}: Why {problem_statement if i == 1 else whys[-1]['answer']}?"
why_question(i, problem_statement, whys) ==
  [number |-> i,
   about  |-> IF i = 1 THEN problem_statement ELSE whys[Len(whys)].answer]

\* root_cause = whys[-1]['answer'] if whys else "No root cause identified"
root_cause_of(whys) ==
  IF whys # <<>> THEN whys[Len(whys)].answer ELSE "No root cause identified"

\* the dictionary returned
five_whys_result(problem_statement, whys) ==
  Returned([problem_statement |-> problem_statement, whys |-> whys,
            root_cause |-> root_cause_of(whys)])

\* ------------------------------------------------------------------------
\* analytical_techniques/probability_impact_matrix.py.  Scores are Python
\* indices, from 0; the thresholds are floats.
\* ------------------------------------------------------------------------

\* scale[score] if 0 <= score < len(scale) else the text given
scale_label(scale, score, invalid) ==
  IF 0 <= score /\ score < Len(scale) THEN scale[score + 1] ELSE invalid

\* is risk_level_score >= span * fraction, the fraction in hundredths
at_least(risk_level_score, span, hundredths) ==
  FLeq(FMul(FromInt(span), Lit(hundredths, 100)), FromInt(risk_level_score))

\* the levels with > where the code has >=
risk_level_above(risk_level_score, span) ==
  IF ~FLeq(FromInt(risk_level_score), FMul(FromInt(span), Lit(75, 100))) THEN "Critical"
  ELSE IF ~FLeq(FromInt(risk_level_score), FMul(FromInt(span), Lit(50, 100))) THEN "High"
  ELSE IF ~FLeq(FromInt(risk_level_score), FMul(FromInt(span), Lit(25, 100))) THEN "Medium"
  ELSE "Low"

\* span = len(likelihood_scale) + len(impact_scale) - 2
risk_level_of(risk_level_score, span) ==
  IF at_least(risk_level_score, span, 75) THEN "Critical"
  ELSE IF at_least(risk_level_score, span, 50) THEN "High"
  ELSE IF at_least(risk_level_score, span, 25) THEN "Medium"
  ELSE "Low"

processed_risk(risk, likelihood_scale, impact_scale) ==
  [ name             |-> risk.name,
    likelihood       |-> scale_label(likelihood_scale, risk.likelihood_score,
                                     "Invalid Likelihood"),
    impact           |-> scale_label(impact_scale, risk.impact_score, "Invalid Impact"),
    likelihood_score |-> risk.likelihood_score,
    impact_score     |-> risk.impact_score,
    risk_level       |-> risk_level_of(risk.likelihood_score + risk.impact_score,
                                       Len(likelihood_scale) + Len(impact_scale) - 2) ]

create_probability_impact_matrix(risks_data, likelihood_scale, impact_scale) ==
  IF risks_data = <<>> THEN Returned(<<>>)
  ELSE Returned([i \in 1..Len(risks_data) |->
                   processed_risk(risks_data[i], likelihood_scale, impact_scale)])

\* ------------------------------------------------------------------------
\* analytical_techniques/risk_register.py.  The register is a list of
\* entries, which add_risk_to_register and update_risk_status change in
\* place and return.
\* ------------------------------------------------------------------------

create_risk_register == <<>>

\* the entry put in front of the register instead of at its end
add_risk_in_front(register, risk_id, name, description, category, likelihood, impact, owner, mitigation_plan, contingency_plan, status) ==
  << [ id |-> risk_id, name |-> name, description |-> description,
       category |-> category, likelihood |-> likelihood, impact |-> impact,
       owner |-> owner, mitigation_plan |-> mitigation_plan,
       contingency_plan |-> contingency_plan, status |-> status,
       priority |-> "Not set" ] >> \o register

add_risk_to_register(register, risk_id, name, description, category, likelihood, impact, owner, mitigation_plan, contingency_plan, status) ==
  Append(register,
         [ id |-> risk_id, name |-> name, description |-> description,
           category |-> category, likelihood |-> likelihood, impact |-> impact,
           owner |-> owner, mitigation_plan |-> mitigation_plan,
           contingency_plan |-> contingency_plan, status |-> status,
           priority |-> "Not set" ])

\* status="Open" of the signature: the argument a call leaves out
NotGiven == "(not given)"

status_or_default(status) == IF status = NotGiven THEN "Open" ELSE status

\* every entry with the id gets the new status, the loop never returning
update_every_risk_status(register, risk_id, new_status) ==
  [i \in 1..Len(register) |->
     IF register[i].id = risk_id
       THEN [register[i] EXCEPT !.status = new_status]
     ELSE register[i]]

\* the first entry with the id gets the new status; no entry with the id:
\* nothing changes
update_risk_status(register, risk_id, new_status) ==
  [i \in 1..Len(register) |->
     IF register[i].id = risk_id /\ \A j \in 1..(i - 1) : register[j].id # risk_id
       THEN [register[i] EXCEPT !.status = new_status]
     ELSE register[i]]

\* ------------------------------------------------------------------------
\* The callers' inputs.  Returns, means and deviations are decimal literals
\* in thousandths; a confidence level is a literal <<n, d>> for n/d.
\* ------------------------------------------------------------------------

\* main_example.demonstrate_value_at_risk's sample
DemoReturns ==
  << 10, -20, 5, 8, -10, 20, -30, 15, -5, 12,
     -8, 10, -15, 7, -12, 18, -22, 10, 3, -18 >>

DemoConfidence == <<95, 100>>

DemoInvestment == 1000000

ReturnGrid == {-30, -22, 10}

MaxSample == 3

\* six equal observations: their float mean is not the observation
EqualRun == <<-22, -22, -22, -22, -22, -22>>

Samples ==
  {DemoReturns, EqualRun} \cup UNION {[1..n -> ReturnGrid] : n \in 0..MaxSample}

ConfidenceLevels ==
  { <<95, 100>>, <<90, 100>>, <<50, 100>>, <<5, 100>>,
    <<0, 1>>, <<1, 1>>, <<3, 2>>, <<-1, 1>> }

InvestmentValues == {0, DemoInvestment}

MeanReturns == {0, 1}

StdDevs == {0, 20}

TimeHorizons == {1, 4}

\* no simulator call in preparation
NoArgs == [fn |-> "none"]

MaxDays == 3

MaxSimulations == 2

\* <<mu, sigma>>: one unit of volatility on a drift that halves the price
\* each day; a drift that doubles it each day; a drift that takes a day's factor below the smallest
\* double; the same with a volatility that takes factors out of the doubles'
\* range in both directions; that volatility alone
Markets ==
  { <<-TradingDays, 1>>, <<TradingDays, 0>>, <<-1100 * TradingDays, 0>>,
    <<-1100 * TradingDays, 2200>>, <<0, 2200>> }

Percentiles == {5, 50}

AssetArgs ==
  { [ fn |-> "asset", initial_price |-> 100, mu |-> m[1], sigma |-> m[2],
      days |-> d, simulations |-> n, percentile |-> q ] :
    m \in Markets, d \in 1..MaxDays, n \in 1..MaxSimulations, q \in Percentiles }

PortfolioValues ==
  { << <<"A", 100>> >>, << <<"A", 100>>, <<"B", 50>> >>,
    << <<"C", 25>>, <<"A", 100>>, <<"B", 50>> >> }

PortfolioReturns ==
  { [a \in {"A", "B", "C"} |-> IF a = "A" THEN TradingDays ELSE 0],
    [a \in {"A", "B", "C"} |-> -1100 * TradingDays] }

PortfolioVolatilities ==
  { [a \in {"A", "B", "C"} |-> IF a = "A" THEN 1 ELSE 2] }

PortfolioCorrelations ==
  { <<>>, [k \in {<<"A", "B">>} |-> 1], [k \in {<<"B", "A">>} |-> -1],
    [k \in {<<"A", "B">>, <<"B", "A">>} |-> IF k[1] = "A" THEN 1 ELSE -1] }

PortfolioArgs ==
  { [ fn |-> "portfolio", initial_values |-> v, expected_returns |-> r,
      volatilities |-> s, correlations |-> c,
      days |-> d, simulations |-> n, percentile |-> 5 ] :
    v \in PortfolioValues, r \in PortfolioReturns, s \in PortfolioVolatilities,
    c \in PortfolioCorrelations, d \in 1..MaxDays, n \in 1..MaxSimulations }

\* a call of the asset simulator as the demonstration makes it, small
DemoAssetArgs ==
  [ fn |-> "asset", initial_price |-> 100, mu |-> TradingDays, sigma |-> 1,
    days |-> 2, simulations |-> 2, percentile |-> 5 ]

\* calls with one argument outside what the documentation asks for: an
\* initial price of zero or below, a negative volatility, no day or a
\* negative number of days, no path or a negative number of paths
InvalidAssetArgs ==
  { [DemoAssetArgs EXCEPT !.initial_price = v] : v \in {0, -100} }
  \cup { [DemoAssetArgs EXCEPT !.sigma = -1] }
  \cup { [DemoAssetArgs EXCEPT !.days = d] : d \in {0, -1} }
  \cup { [DemoAssetArgs EXCEPT !.simulations = n] : n \in {0, -1} }

\* a call of the portfolio simulator on two perfectly correlated assets
DemoPortfolioArgs ==
  [ fn |-> "portfolio", initial_values |-> << <<"A", 100>>, <<"B", 50>> >>,
    expected_returns |-> [a \in {"A", "B"} |-> IF a = "A" THEN TradingDays ELSE 0],
    volatilities |-> [a \in {"A", "B"} |-> IF a = "A" THEN 1 ELSE 2],
    correlations |-> [k \in {<<"A", "B">>} |-> 1],
    days |-> 2, simulations |-> 2, percentile |-> 5 ]

\* calls the documentation rules out: no asset; a coefficient of 2 (on an
\* asset without volatility, so that the covariance matrix is one numpy
\* samples from); an initial value of zero or below, alone or next to a
\* valid one; a negative volatility
InvalidPortfolioArgs ==
  { [DemoPortfolioArgs EXCEPT !.initial_values = <<>>],
    [DemoPortfolioArgs EXCEPT !.correlations = [k \in {<<"A", "B">>} |-> 2],
                              !.volatilities = [a \in {"A", "B"} |->
                                                  IF a = "A" THEN 1 ELSE 0]],
    [DemoPortfolioArgs EXCEPT !.volatilities = [a \in {"A", "B"} |->
                                                  IF a = "A" THEN -1 ELSE 2]] }
  \cup { [DemoPortfolioArgs EXCEPT !.initial_values = v] :
            v \in { << <<"A", 0>> >>, << <<"A", 100>>, <<"B", -100>> >>,
                    << <<"A", 100>>, <<"B", 0>> >> } }

\* the calls concurrent threads make
ConcurrentArgs ==
  { DemoAssetArgs, [DemoAssetArgs EXCEPT !.mu = -TradingDays], DemoPortfolioArgs }

\* what main_example.demonstrate_risk_register writes about its two risks
DemoRisks ==
  { [ name |-> "Data Breach", description |-> "Sensitive customer data exposed",
      category |-> "Cybersecurity", likelihood |-> "Medium", impact |-> "High",
      owner |-> "IT Security Team", mitigation_plan |-> "Security audits",
      contingency_plan |-> "Incident response plan" ],
    [ name |-> "Market Competition", description |-> "New competitor at a lower price",
      category |-> "Market", likelihood |-> "High", impact |-> "Medium",
      owner |-> "Marketing Dept", mitigation_plan |-> "Enhance product features",
      contingency_plan |-> "Promotional discounts" ] }

RiskIds == {"R001", "R002"}

\* the status a risk is added with: the default and another
AddStatuses == {"Open", "Mitigated"}

NewStatuses == {"In Progress"}

MaxRisks == 3

\* applicants: the demonstration's and others, with figures on, at and
\* beyond the ends of the scales
Incomes == {0, 75000}

Debts == {0, 25000, 150000}

PaymentHistories == {-50, 0, 90, 100, 150}

CreditUtilizations == {-10, 0, 30, 100, 120}

CreditHistoryLengths == {-1, 0, 5, 10, 12}

Applicants ==
  [ income : Incomes, debt : Debts, payment_history : PaymentHistories,
    credit_utilization : CreditUtilizations,
    credit_history_length : CreditHistoryLengths ]

NoApplicant ==
  [ income |-> 0, debt |-> 0, payment_history |-> 0, credit_utilization |-> 0,
    credit_history_length |-> 0 ]

DemoProblem == "the project missed its deadline"

\* the first whys of the demonstration
DemoWhys ==
  << [question |-> [number |-> 1, about |-> "did the project miss its deadline"],
      answer   |-> "The final testing phase took longer than expected."],
     [question |-> [number |-> 2, about |-> "did testing take longer than expected"],
      answer   |-> "We found more bugs than anticipated."] >>

\* what the keyboard may answer a why with: nothing, or one of two causes
Answers == {"", "testing took longer", "reviews were rushed"}

\* what it may reply to "Continue to Why #...? (y/n)"
Replies == {"y", "Y", "n", "N", "Yes", ""}

MaxWhys == 3

\* max_whys as a caller may pass it
MaxWhysArgs == (-1)..MaxWhys

\* whys=None of the signature: the argument a call leaves out
WhysNone == [given |-> FALSE, list |-> <<>>]

\* whys as a caller may pass it: None, an empty list, the demonstration's
WhysArgs ==
  {WhysNone} \cup
  {[given |-> TRUE, list |-> w] : w \in {<<>>, SubSeq(DemoWhys, 1, 1), DemoWhys}}

\* the scales of the demonstration
DemoLikelihoodScale == <<"Very Low", "Low", "Medium", "High", "Very High">>

DemoImpactScale == <<"Negligible", "Minor", "Moderate", "Significant", "Severe">>

DemoRisksForMatrix ==
  << [name |-> "Critical System Failure", likelihood_score |-> 2, impact_score |-> 4],
     [name |-> "Project Funding Cut", likelihood_score |-> 1, impact_score |-> 3],
     [name |-> "Key Staff Departure", likelihood_score |-> 3, impact_score |-> 2],
     [name |-> "Minor Feature Delay", likelihood_score |-> 4, impact_score |-> 0] >>

MaxLevels == 5

\* the first levels of a scale, and a level more where the scale is exhausted
LevelsOf(scale, n) ==
  [i \in 1..n |-> IF i <= Len(scale) THEN scale[i] ELSE "Extreme"]

\* scales of no level up to MaxLevels levels
LikelihoodScales == {LevelsOf(DemoLikelihoodScale, n) : n \in 0..MaxLevels}

ImpactScales == {LevelsOf(DemoImpactScale, n) : n \in 0..MaxLevels}

\* no risk, one risk of any score on a scale or just off it, and the
\* demonstration's four
RisksData ==
  {<<>>, DemoRisksForMatrix} \cup
  { <<[name |-> "Risk", likelihood_score |-> l, impact_score |-> i]>> :
      l \in -1..MaxLevels, i \in -1..MaxLevels }

\* holdings of the demonstration, one of them without value
Holdings ==
  { <<"US Equities", 500000>>, <<"European Equities", 300000>>,
    <<"US Bonds", 400000>>, <<"Cash", 0>> }

MaxAssets == 2

\* the portfolios of at most MaxAssets different holdings, in any order
StressPortfolios ==
  UNION { {p \in [1..n -> Holdings] : \A i, j \in 1..n : p[i] = p[j] => i = j} :
          n \in 0..MaxAssets }

\* shocks in hundredths: no scenario, the demonstration's, and two that
\* leave holdings out, one of them naming an asset nobody holds
StressScenarios ==
  { <<>>,
    [a \in {"US Equities", "European Equities", "US Bonds", "Cash"} |->
       CASE a = "US Equities" -> -40 [] a = "European Equities" -> -45
         [] a = "US Bonds" -> 5 [] a = "Cash" -> 0],
    [a \in {"US Equities", "Gold"} |-> IF a = "Gold" THEN 10 ELSE -7],
    [a \in {"European Equities", "US Bonds"} |-> IF a = "US Bonds" THEN 5 ELSE -7] }

\* the seeds the generator may carry from the process's start or from other
\* code that seeds it
Seeds == {0, 7}

\* how many normals other code draws between two seedings
MaxOtherDraws == 1

Thousandths(a) == [i \in 1..Len(a) |-> Lit(a[i], 1000)]

Conf(c) == Lit(c[1], c[2])

VARIABLES
  returns,            \* the sample handed to the VaR functions
  confidence_level,   \* the confidence level handed to them
  investment_value,   \* the investment value handed to them
  hvar,               \* what calculate_historical_var did on these inputs
  cvar,               \* what calculate_conditional_var did on them
  pvar,               \* the arguments and outcome of calculate_parametric_var
  rng,                \* the state of np.random, the process-wide generator
  args,               \* the arguments a caller hands to a simulator
  sim,                \* what the latest call of the simulator did
  kept,               \* what an earlier call did, still held by the caller
  locals,             \* what the latest call built without returning it
  workers,            \* the simulator calls of concurrent threads
  register,           \* the caller's risk register
  call,               \* the last call made on the register
  inserted,           \* the ids of the add calls made on it, in their order
  applicant,          \* the figures handed to simple_credit_score
  score,              \* what simple_credit_score did on them
  portfolio,          \* the portfolio handed to apply_scenario_to_portfolio
  scenario_shocks,    \* the shocks handed to it
  stressed,           \* what it did on them
  risks_data,         \* the risks handed to create_probability_impact_matrix
  likelihood_scale,   \* the likelihood levels handed to it
  impact_scale,       \* the impact levels handed to it
  matrix,             \* what it did on them
  whys_arg,           \* the whys handed to perform_5whys
  max_whys,           \* the max_whys handed to it
  pc,                 \* where perform_5whys stands
  why_number,         \* the i of its loop
  whys,               \* the whys it has recorded
  typed,              \* the line input() read last
  asked,              \* the why questions it has printed
  five_whys           \* what it returned

varVars == <<returns, confidence_level, investment_value, hvar, cvar, pvar>>

mcVars == <<rng, args, sim, kept, locals, workers>>

creditVars == <<applicant, score>>

stressVars == <<portfolio, scenario_shocks, stressed>>

regVars == <<register, call, inserted>>

matrixVars == <<risks_data, likelihood_scale, impact_scale, matrix>>

whysVars == <<whys_arg, max_whys, pc, why_number, whys, typed, asked, five_whys>>

toolVars == <<regVars, creditVars, stressVars, matrixVars, whysVars>>

vars == <<varVars, mcVars, toolVars>>

NoLocals == LocalsOf(<<>>, <<>>)

\* the threads of a process that calls the simulators concurrently
Workers == {"w1", "w2"}

\* no thread but the main one
NoWorkers == [w \in Workers |-> [pc |-> "idle", args |-> NoArgs, out |-> NotCalled]]

NoParametric == [mean_return |-> 0, std_dev |-> 0, time_horizon |-> 1, out |-> NotCalled]

\* the demonstration's data, nothing called yet
VarStart ==
  /\ returns = DemoReturns
  /\ confidence_level = DemoConfidence
  /\ investment_value = DemoInvestment
  /\ hvar = NotCalled
  /\ cvar = NotCalled
  /\ pvar = NoParametric

\* the generator as the process finds it, no simulation run
McStart ==
  /\ rng \in {np_random_seed(s) : s \in Seeds}
  /\ sim = NotCalled
  /\ kept = NotCalled
  /\ locals = NoLocals

\* no simulator call in preparation either
McQuiet ==
  /\ McStart
  /\ rng = np_random_seed(0)
  /\ args = NoArgs
  /\ workers = NoWorkers

\* the other tools unused
CreditStart ==
  /\ applicant = NoApplicant
  /\ score = NotCalled

StressStart ==
  /\ portfolio = <<>>
  /\ scenario_shocks = <<>>
  /\ stressed = NotCalled

\* my_register = create_risk_register(), nothing called on it yet
NoCall == [op |-> "create", risk_id |-> "", status |-> ""]

RegisterStart ==
  /\ register = create_risk_register
  /\ call = NoCall
  /\ inserted = <<>>

MatrixStart ==
  /\ risks_data = <<>>
  /\ likelihood_scale = <<>>
  /\ impact_scale = <<>>
  /\ matrix = NotCalled

\* perform_5whys not called
NotAsked ==
  /\ pc = "idle"
  /\ why_number = 0
  /\ whys = <<>>
  /\ typed = ""
  /\ asked = 0
  /\ five_whys = NotCalled

WhysStart ==
  /\ whys_arg = WhysNone
  /\ max_whys = 0
  /\ NotAsked

ToolStart ==
  /\ RegisterStart
  /\ CreditStart
  /\ StressStart
  /\ MatrixStart
  /\ WhysStart

VarInit ==
  /\ VarStart
  /\ McQuiet
  /\ ToolStart

Idle == hvar = NotCalled /\ cvar = NotCalled /\ pvar = NoParametric

\* between calls a caller changes the data for the next calls
ChooseReturns ==
  /\ Idle
  /\ \E r \in Samples : returns' = r
  /\ UNCHANGED <<confidence_level, investment_value, hvar, cvar, pvar, mcVars, toolVars>>

ChooseConfidence ==
  /\ Idle
  /\ \E c \in ConfidenceLevels : confidence_level' = c
  /\ UNCHANGED <<returns, investment_value, hvar, cvar, pvar, mcVars, toolVars>>

ChooseInvestment ==
  /\ Idle
  /\ \E v \in InvestmentValues : investment_value' = v
  /\ UNCHANGED <<returns, confidence_level, hvar, cvar, pvar, mcVars, toolVars>>

\* the caller drops the results it holds
Discard ==
  /\ ~Idle
  /\ hvar' = NotCalled
  /\ cvar' = NotCalled
  /\ pvar' = NoParametric
  /\ UNCHANGED <<returns, confidence_level, investment_value, mcVars, toolVars>>

CallHistoricalVar ==
  /\ hvar' = calculate_historical_var(Thousandths(returns), Conf(confidence_level),
                                      investment_value)
  /\ UNCHANGED <<returns, confidence_level, investment_value, cvar, pvar, mcVars, toolVars>>

CallConditionalVar ==
  /\ cvar' = calculate_conditional_var(Thousandths(returns), Conf(confidence_level),
                                       investment_value)
  /\ UNCHANGED <<returns, confidence_level, investment_value, hvar, pvar, mcVars, toolVars>>

CallParametricVar ==
  /\ \E m \in MeanReturns, s \in StdDevs, t \in TimeHorizons :
       pvar' = [mean_return |-> m, std_dev |-> s, time_horizon |-> t,
                out |-> calculate_parametric_var(Lit(m, 1000), Lit(s, 1000),
                          Conf(confidence_level), investment_value, t)]
  /\ UNCHANGED <<returns, confidence_level, investment_value, hvar, cvar, mcVars, toolVars>>

\* the two sample-based functions, called in any order on any inputs
VarNext ==
  \/ ChooseReturns
  \/ ChooseConfidence
  \/ ChooseInvestment
  \/ Discard
  \/ CallHistoricalVar
  \/ CallConditionalVar

SpecVaR == VarInit /\ [][VarNext]_vars

\* the parametric function, which reads no sample
ParNext ==
  \/ ChooseConfidence
  \/ ChooseInvestment
  \/ Discard
  \/ CallParametricVar

SpecPVaR == VarInit /\ [][ParNext]_vars

\* ------------------------------------------------------------------------
\* The simulators, called one call after the other by a caller that keeps
\* results, in a process where other code uses np.random too
\* ------------------------------------------------------------------------

McInit ==
  /\ VarStart
  /\ McStart
  /\ args \in AssetArgs \cup PortfolioArgs
  /\ workers = NoWorkers
  /\ ToolStart

\* a call ends: the caller holds what it returned or raised, and the
\* generator is left as the call left it
Finish(r, built) ==
  /\ sim' = r.out
  /\ rng' = r.gen
  /\ locals' = built
  /\ UNCHANGED <<args, kept, workers, varVars, toolVars>>

FinishPortfolio(r) == Finish(r, r.locals)

CallSimulateAsset ==
  /\ args.fn = "asset"
  /\ Finish(simulate_asset_price_monte_carlo(rng, args.initial_price, args.mu,
              args.sigma, args.days, args.simulations, args.percentile),
            NoLocals)

CallSimulatePortfolio ==
  /\ args.fn = "portfolio"
  /\ FinishPortfolio(simulate_portfolio_monte_carlo(rng, args.initial_values,
       args.expected_returns, args.volatilities, args.correlations,
       args.days, args.simulations, args.percentile))

\* the caller puts the latest result aside
Keep ==
  /\ sim.st # "none"
  /\ kept' = sim
  /\ sim' = NotCalled
  /\ locals' = NoLocals
  /\ UNCHANGED <<rng, args, workers, varVars, toolVars>>

\* other code draws a normal from np.random
OtherDraw ==
  /\ rng.pos < MaxOtherDraws
  /\ rng' = Advance(rng, 1)
  /\ UNCHANGED <<args, sim, kept, locals, workers, varVars, toolVars>>

\* other code seeds np.random
OtherSeed ==
  /\ \E s \in Seeds : rng' = np_random_seed(s)
  /\ UNCHANGED <<args, sim, kept, locals, workers, varVars, toolVars>>

McNext ==
  \/ CallSimulateAsset
  \/ CallSimulatePortfolio
  \/ Keep
  \/ OtherDraw
  \/ OtherSeed

SpecMC == McInit /\ [][McNext]_vars

\* the same callers, handing over arguments the documentation rules out
McInvalidInit ==
  /\ VarStart
  /\ McStart
  /\ args \in InvalidAssetArgs \cup InvalidPortfolioArgs
  /\ workers = NoWorkers
  /\ ToolStart

SpecMCInvalid == McInvalidInit /\ [][McNext]_vars

\* ------------------------------------------------------------------------
\* The simulators called by two threads of one process.  A thread switch
\* can fall between np.random.seed(42) and the draw that follows it; the
\* draw itself is one call into numpy, and everything after it works on the
\* thread's own arrays.
\* ------------------------------------------------------------------------

ThreadInit ==
  /\ VarStart
  /\ McStart
  /\ args = NoArgs
  /\ workers \in [Workers -> {[pc |-> "start", args |-> a, out |-> NotCalled] :
                                a \in ConcurrentArgs}]
  /\ ToolStart

\* np.random.seed(42)
SeedStep(w) ==
  /\ workers[w].pc = "start"
  /\ rng' = seed_for_reproducibility(rng)
  /\ workers' = [workers EXCEPT ![w].pc = "seeded"]
  /\ UNCHANGED <<args, sim, kept, locals, varVars, toolVars>>

\* the thread's call ends with the outcome r.out, the generator left as
\* r.gen
FinishThread(w, r) ==
  /\ rng' = r.gen
  /\ workers' = [workers EXCEPT ![w].pc = "done", ![w].out = r.out]
  /\ UNCHANGED <<args, sim, kept, locals, varVars, toolVars>>

\* np.random.normal and the rest of the asset simulator
DrawStepAsset(w) ==
  /\ workers[w].pc = "seeded"
  /\ workers[w].args.fn = "asset"
  /\ FinishThread(w, asset_random_returns(rng, workers[w].args.initial_price,
       workers[w].args.mu, workers[w].args.sigma, workers[w].args.days,
       workers[w].args.simulations, workers[w].args.percentile))

\* np.random.multivariate_normal and the rest of the portfolio simulator
DrawStepPortfolio(w) ==
  /\ workers[w].pc = "seeded"
  /\ workers[w].args.fn = "portfolio"
  /\ FinishThread(w, portfolio_random_returns(rng,
       Keys(workers[w].args.initial_values),
       corr_matrix_of(Keys(workers[w].args.initial_values),
                      workers[w].args.correlations),
       workers[w].args.initial_values, workers[w].args.expected_returns,
       workers[w].args.volatilities, workers[w].args.days,
       workers[w].args.simulations, workers[w].args.percentile))

ThreadNext ==
  \E w \in Workers :
    \/ SeedStep(w)
    \/ DrawStepAsset(w)
    \/ DrawStepPortfolio(w)

SpecThreads == ThreadInit /\ [][ThreadNext]_vars

\* ------------------------------------------------------------------------
\* The risk register, kept by a caller who adds risks and updates them
\* ------------------------------------------------------------------------

RegisterInit ==
  /\ VarStart
  /\ McQuiet
  /\ RegisterStart
  /\ CreditStart
  /\ StressStart
  /\ MatrixStart
  /\ WhysStart

\* my_register = create_risk_register(), dropping the register held
CreateRegister ==
  /\ register # <<>>
  /\ register' = create_risk_register
  /\ call' = NoCall
  /\ inserted' = <<>>
  /\ UNCHANGED <<varVars, mcVars, creditVars, stressVars, matrixVars, whysVars>>

AddRisk ==
  /\ Len(register) < MaxRisks
  /\ \E risk_id \in RiskIds, r \in DemoRisks, status \in AddStatuses \cup {NotGiven} :
       /\ register' = add_risk_to_register(register, risk_id, r.name, r.description,
                        r.category, r.likelihood, r.impact, r.owner,
                        r.mitigation_plan, r.contingency_plan,
                        status_or_default(status))
       /\ call' = [op |-> "add", risk_id |-> risk_id, status |-> status]
       /\ inserted' = Append(inserted, risk_id)
  /\ UNCHANGED <<varVars, mcVars, creditVars, stressVars, matrixVars, whysVars>>

UpdateRiskStatus ==
  /\ \E risk_id \in RiskIds, new_status \in NewStatuses :
       /\ register' = update_risk_status(register, risk_id, new_status)
       /\ call' = [op |-> "update", risk_id |-> risk_id, status |-> new_status]
  /\ UNCHANGED inserted
  /\ UNCHANGED <<varVars, mcVars, creditVars, stressVars, matrixVars, whysVars>>

RegisterNext ==
  \/ CreateRegister
  \/ AddRisk
  \/ UpdateRiskStatus

SpecRegister == RegisterInit /\ [][RegisterNext]_vars

\* ------------------------------------------------------------------------
\* The credit score of one applicant after the other
\* ------------------------------------------------------------------------

CreditInit ==
  /\ VarStart
  /\ McQuiet
  /\ RegisterStart
  /\ applicant \in Applicants
  /\ score = NotCalled
  /\ StressStart
  /\ MatrixStart
  /\ WhysStart

CallSimpleCreditScore ==
  /\ score.st = "none"
  /\ score' = simple_credit_score(applicant.income, applicant.debt,
                 applicant.payment_history, applicant.credit_utilization,
                 applicant.credit_history_length)
  /\ UNCHANGED <<varVars, mcVars, regVars, applicant, stressVars, matrixVars, whysVars>>

\* the next applicant
NextApplicant ==
  /\ score.st # "none"
  /\ \E a \in Applicants : applicant' = a
  /\ score' = NotCalled
  /\ UNCHANGED <<varVars, mcVars, regVars, stressVars, matrixVars, whysVars>>

CreditNext ==
  \/ CallSimpleCreditScore
  \/ NextApplicant

SpecCredit == CreditInit /\ [][CreditNext]_vars

\* ------------------------------------------------------------------------
\* One scenario after the other applied to one portfolio after the other
\* ------------------------------------------------------------------------

StressInit ==
  /\ VarStart
  /\ McQuiet
  /\ RegisterStart
  /\ CreditStart
  /\ portfolio \in StressPortfolios
  /\ scenario_shocks \in StressScenarios
  /\ stressed = NotCalled
  /\ MatrixStart
  /\ WhysStart

\* the function assigns to neither argument
CallApplyScenario ==
  /\ stressed.st = "none"
  /\ stressed' = apply_scenario_to_portfolio(portfolio, scenario_shocks)
  /\ UNCHANGED <<varVars, mcVars, regVars, creditVars, portfolio, scenario_shocks, matrixVars, whysVars>>

NextScenario ==
  /\ stressed.st # "none"
  /\ \E p \in StressPortfolios, c \in StressScenarios :
       /\ portfolio' = p
       /\ scenario_shocks' = c
  /\ stressed' = NotCalled
  /\ UNCHANGED <<varVars, mcVars, regVars, creditVars, matrixVars, whysVars>>

StressNext ==
  \/ CallApplyScenario
  \/ NextScenario

SpecStress == StressInit /\ [][StressNext]_vars

\* ------------------------------------------------------------------------
\* One list of risks after the other put on a pair of scales
\* ------------------------------------------------------------------------

MatrixInit ==
  /\ VarStart
  /\ McQuiet
  /\ RegisterStart
  /\ CreditStart
  /\ StressStart
  /\ risks_data \in RisksData
  /\ likelihood_scale \in LikelihoodScales
  /\ impact_scale \in ImpactScales
  /\ matrix = NotCalled
  /\ WhysStart

CallCreateMatrix ==
  /\ matrix.st = "none"
  /\ matrix' = create_probability_impact_matrix(risks_data, likelihood_scale,
                                                impact_scale)
  /\ UNCHANGED <<varVars, mcVars, regVars, creditVars, stressVars, risks_data,
                 likelihood_scale, impact_scale, whysVars>>

NextMatrix ==
  /\ matrix.st # "none"
  /\ risks_data' \in RisksData
  /\ matrix' = NotCalled
  /\ UNCHANGED <<varVars, mcVars, regVars, creditVars, stressVars, likelihood_scale,
                 impact_scale, whysVars>>

MatrixNext ==
  \/ CallCreateMatrix
  \/ NextMatrix

SpecMatrix == MatrixInit /\ [][MatrixNext]_vars

\* ------------------------------------------------------------------------
\* perform_5whys, step by step, at a keyboard that answers as it likes
\* ------------------------------------------------------------------------

WhysInit ==
  /\ VarStart
  /\ McQuiet
  /\ RegisterStart
  /\ CreditStart
  /\ StressStart
  /\ MatrixStart
  /\ whys_arg \in WhysArgs
  /\ max_whys \in MaxWhysArgs
  /\ NotAsked

otherVars == <<varVars, mcVars, regVars, creditVars, stressVars, matrixVars>>

\* for i in range(1, max_whys + 1): the why question is printed and
\* input() awaited, or the loop is over
LoopAt(n) ==
  IF n <= max_whys
    THEN /\ pc' = "answer"
         /\ asked' = asked + 1
    ELSE /\ pc' = "results"
         /\ asked' = asked

\* perform_5whys(problem_statement, whys, max_whys) with whys None
CallInteractive ==
  /\ pc = "idle"
  /\ whys_arg = WhysNone
  /\ whys' = <<>>
  /\ why_number' = 1
  /\ LoopAt(1)
  /\ UNCHANGED <<otherVars, whys_arg, max_whys, typed, five_whys>>

\* perform_5whys(problem_statement, whys, max_whys) with a list of whys
CallWithWhys ==
  /\ pc = "idle"
  /\ whys_arg # WhysNone
  /\ whys' = whys_arg.list
  /\ pc' = "results"
  /\ UNCHANGED <<otherVars, whys_arg, max_whys, why_number, typed, asked, five_whys>>

\* answer = input("Answer: "); an empty answer breaks the loop, any other
\* is recorded
Answer ==
  /\ pc = "answer"
  /\ \E answer \in Answers :
       /\ typed' = answer
       /\ IF answer = ""
            THEN /\ pc' = "results"
                 /\ whys' = whys
            ELSE /\ pc' = "continue"
                 /\ whys' = Append(whys, [question |-> why_question(why_number, DemoProblem, whys),
                                          answer   |-> answer])
  /\ UNCHANGED <<otherVars, whys_arg, max_whys, why_number, asked, five_whys>>

\* continue_analysis = input(...).lower(); anything but 'y' breaks the loop
Continue ==
  /\ pc = "continue"
  /\ \E reply \in Replies :
       /\ typed' = reply
       /\ IF py_lower(reply) # "y"
            THEN /\ pc' = "results"
                 /\ why_number' = why_number
                 /\ asked' = asked
            ELSE /\ why_number' = why_number + 1
                 /\ LoopAt(why_number + 1)
  /\ UNCHANGED <<otherVars, whys_arg, max_whys, whys, five_whys>>

\* the results are printed and the dictionary returned
PrintResults ==
  /\ pc = "results"
  /\ five_whys' = five_whys_result(DemoProblem, whys)
  /\ pc' = "done"
  /\ UNCHANGED <<otherVars, whys_arg, max_whys, why_number, whys, typed, asked>>

\* the caller turns to another analysis
NextAnalysis ==
  /\ pc = "done"
  /\ whys_arg' \in WhysArgs
  /\ max_whys' \in MaxWhysArgs
  /\ pc' = "idle"
  /\ why_number' = 0
  /\ whys' = <<>>
  /\ typed' = ""
  /\ asked' = 0
  /\ five_whys' = NotCalled
  /\ UNCHANGED otherVars

WhysNext ==
  \/ CallInteractive
  \/ CallWithWhys
  \/ Answer
  \/ Continue
  \/ PrintResults
  \/ NextAnalysis

SpecWhys == WhysInit /\ [][WhysNext]_vars

\* the interpreter runs the function on once it has been called and needs
\* no input; the keyboard owes nothing
FairSpecWhys == SpecWhys /\ WF_vars(PrintResults)

\* ------------------------------------------------------------------------
\* The rules as the specification states them, in exact integer arithmetic
\* on the decimal inputs
\* ------------------------------------------------------------------------

\* a confidence level strictly between 0 and 1
InOpenUnit(c) == 0 < c[1] /\ c[1] < c[2]

RECURSIVE IntInsert(_, _)
IntInsert(x, s) ==
  IF s = <<>> THEN <<x>>
  ELSE IF x <= Head(s) THEN <<x>> \o s
  ELSE <<Head(s)>> \o IntInsert(x, Tail(s))

RECURSIVE Ascending(_)
Ascending(a) ==
  IF a = <<>> THEN <<>> ELSE IntInsert(Head(a), Ascending(Tail(a)))

\* max(0, ceil(n * (1 - c)) - 1) for a decimal c = c[1]/c[2] in (0, 1)
ExactIndex(n, c) == Max(0, (n * (c[2] - c[1]) + c[2] - 1) \div c[2] - 1)

RECURSIVE IntSum(_)
IntSum(a) == IF a = <<>> THEN 0 ELSE Head(a) + IntSum(Tail(a))

\* |x - y| <= tol
Near(x, y, tol) == FLeq(FAbs(FSub(x, y)), tol)

\* rounding in the last places of a dollar amount: a millionth of a dollar
Rounding == Lit(1, 1000000)

BothReturned == hvar.st = "returned" /\ cvar.st = "returned"

\* the index both sample-based functions compute on the current inputs
CodeIndex == historical_index(Len(returns), Conf(confidence_level))

\* the observations sorted[0..index] of the current inputs, in thousandths
Tail1000 == SubSeq(Ascending(returns), 1, CodeIndex + 1)

AllEqual(a) == \A i \in 1..Len(a) : a[i] = a[1]

\* ------------------------------------------------------------------------
\* Claims
\* ------------------------------------------------------------------------

\* C1: for every non-empty sample of length n and every confidence c in
\* (0,1), calculate_historical_var returns investment_value * -sorted[index]
\* with index = max(0, ceil(n*(1-c)) - 1); whenever n*(1-c) <= 1 the index is
\* 0 and the result comes from the worst observed return.
C1_ClampedCeilingIndex ==
  (hvar.st # "none" /\ returns # <<>> /\ InOpenUnit(confidence_level)) =>
    LET n      == Len(returns)
        sorted == Ascending(returns)
        index  == ExactIndex(n, confidence_level)
    IN  /\ hvar = Returned(FMul(FromInt(investment_value),
                                FNeg(Lit(sorted[index + 1], 1000))))
        /\ n * (confidence_level[2] - confidence_level[1]) <= confidence_level[2]
             => hvar = Returned(FMul(FromInt(investment_value),
                                     FNeg(Lit(sorted[1], 1000))))

C3_AsStated ==
  (BothReturned /\ returns # <<>> /\ InOpenUnit(confidence_level)
     /\ investment_value >= 0) =>
    /\ FLeq(hvar.val, cvar.val)
    /\ hvar.val = cvar.val => CodeIndex = 0
    /\ ~AllEqual(Tail1000) => FLess(hvar.val, cvar.val)

\* C3, amended: CVaR >= VaR up to the rounding of the float mean; the two are
\* the same float when index = 0; they agree up to rounding also when
\* index > 0 and the tail's values are all equal or investment_value = 0;
\* and CVaR exceeds VaR by more than rounding when the tail holds more than
\* one distinct value and investment_value > 0.
C3_ShortfallAtLeastVaR ==
  (BothReturned /\ returns # <<>> /\ InOpenUnit(confidence_level)
     /\ investment_value >= 0) =>
    /\ FLeq(FSub(hvar.val, Rounding), cvar.val)
    /\ CodeIndex = 0 => hvar.val = cvar.val
    /\ (AllEqual(Tail1000) \/ investment_value = 0)
         => Near(hvar.val, cvar.val, Rounding)
    /\ (~AllEqual(Tail1000) /\ investment_value > 0)
         => FLess(FAdd(hvar.val, Rounding), cvar.val)

\* an equal tail of more than one point: CVaR = VaR although index > 0
C3_Witness ==
  /\ BothReturned
  /\ InOpenUnit(confidence_level)
  /\ investment_value > 0
  /\ CodeIndex >= 1
  /\ Len(returns) > CodeIndex
  /\ AllEqual(Tail1000)

\* C4: on the demonstration sample with confidence 0.95 and investment
\* 1,000,000 the index is 0, calculate_historical_var returns 30,000.00 and
\* calculate_conditional_var, averaging sorted[0..0], returns 30,000.00 too.
C4_DemonstrationExample ==
  (returns = DemoReturns /\ confidence_level = DemoConfidence
     /\ investment_value = DemoInvestment) =>
    /\ hvar.st # "none" => (CodeIndex = 0 /\ hvar = Returned(FromInt(30000)))
    /\ cvar.st # "none" => cvar = Returned(FromInt(30000))

\* C5: calculate_parametric_var returns
\* investment_value * -(mean*T + z*std*sqrt(T)) with z = norm.ppf(1 - c),
\* which is negative for every c > 0.5; so with mean 0, std >= 0 and
\* investment >= 0 the result is non-negative, and for mean 0, std 0.02,
\* c = 0.95, investment 1,000,000, T = 1 it is about 32,900.
C5_ParametricSign ==
  (pvar.out.st # "none" /\ InOpenUnit(confidence_level)) =>
    LET c   == confidence_level
        row == CHOOSE r \in PpfTable : r[1] * c[2] = 100 * (c[2] - c[1])
        rt  == CHOOSE r \in 0..pvar.time_horizon : r * r = pvar.time_horizon
        \* -(mean*T + z*std*sqrt(T)) in units of 10^-9
        K   == -(pvar.mean_return * pvar.time_horizon * 1000000
                   + row[2] * pvar.std_dev * rt)
        amount == FDiv(FDiv(FMul(FromInt(investment_value), FromInt(K)),
                            FromInt(1000000)), FromInt(1000))
    IN  /\ pvar.out.st = "returned"
        /\ Near(pvar.out.val, amount, Rounding)
        /\ 2 * c[1] > c[2] =>
             /\ FLess(norm_ppf(FSub(FromInt(1), Conf(c))), FZero)
             /\ (pvar.mean_return = 0 /\ pvar.std_dev >= 0 /\ investment_value >= 0)
                  => FLeq(FZero, pvar.out.val)
        /\ (pvar.mean_return = 0 /\ pvar.std_dev = 20 /\ pvar.time_horizon = 1
              /\ c = DemoConfidence /\ investment_value = DemoInvestment)
             => Near(pvar.out.val, FromInt(32900), FromInt(10))

C5_Witness ==
  /\ pvar.out.st = "returned"
  /\ pvar.mean_return = 0
  /\ pvar.std_dev = 20
  /\ pvar.time_horizon = 1
  /\ confidence_level = DemoConfidence
  /\ investment_value = DemoInvestment
  /\ FLess(FromInt(32890), pvar.out.val)

\* C6: each of the three functions fails with InvalidParameter, returning
\* nothing, when confidence_level is 0, 1 or outside (0,1); the two
\* sample-based functions also do when the sample is empty.
C6_InvalidParameter ==
  LET invalid(out) == out.st = "raised" /\ out.err = "InvalidParameter"
  IN  /\ (hvar.st # "none" /\ (~InOpenUnit(confidence_level) \/ returns = <<>>))
           => invalid(hvar)
      /\ (cvar.st # "none" /\ (~InOpenUnit(confidence_level) \/ returns = <<>>))
           => invalid(cvar)
      /\ (pvar.out.st # "none" /\ ~InOpenUnit(confidence_level))
           => invalid(pvar.out)

\* ------------------------------------------------------------------------
\* The simulators' results against the specification's statements
\* ------------------------------------------------------------------------

\* the matrix a returned result carries
PathMatrix(r) == IF args.fn = "asset" THEN r.val.price_paths ELSE r.val.portfolio_paths

Entries(m) == {m[t][p] : t \in 1..Len(m), p \in 1..args.simulations}

\* the draw of day t on path p after seed(42), as the specification has it:
\* mean period_drift, deviation period_vol, one normal per day and path
OwnDraw(t, p) ==
  (args.mu \div TradingDays)
  + args.sigma * Normals42[(((t - 1) * args.simulations + (p - 1)) % Period) + 1]

\* the draws of a call, per day and path one per asset
DrawsOf(a) ==
  IF a.fn = "asset"
  THEN [t \in 1..a.days |-> [p \in 1..a.simulations |-> <<OwnDraw(t, p)>>]]
  ELSE LET assets == Keys(a.initial_values)
           vol    == [i \in 1..Len(assets) |-> a.volatilities[assets[i]]]
       IN  np_random_multivariate_normal(np_random_seed(42),
             [i \in 1..Len(assets) |-> a.expected_returns[assets[i]] \div TradingDays],
             cov_matrix_of(vol, corr_matrix_of(assets, a.correlations)),
             a.days, a.simulations).out

RECURSIVE RunningSum(_, _, _, _)
RunningSum(d, t, p, i) ==
  IF t = 0 THEN 0 ELSE d[t][p][i] + RunningSum(d, t - 1, p, i)

Abs(n) == IF n < 0 THEN -n ELSE n

\* log-returns, in units of ln 2, whose exponential times an initial value of
\* the model is a normal double
LogRange == MaxExp - 24

\* every draw and every path's running sum of draws within that range
WithinRange ==
  LET d == DrawsOf(args)
  IN  \A t \in 1..args.days, p \in 1..args.simulations, i \in 1..Len(d[1][1]) :
        Abs(d[t][p][i]) <= LogRange /\ Abs(RunningSum(d, t, p, i)) <= LogRange

\* C7: a call repeated with the arguments of an earlier call, whatever other
\* code did to np.random in between, returns what the earlier call returned:
\* the same path matrix, the same terminal row, the same statistics
C7_RepeatedCallSameResult ==
  (sim.st # "none" /\ kept.st # "none") => sim = kept

\* a portfolio simulated twice, with paths that differ from one another
C7_Witness ==
  /\ args.fn = "portfolio"
  /\ sim.st = "returned" /\ kept.st = "returned"
  /\ sim.val.final_portfolio_values = kept.val.final_portfolio_values
  /\ \E p, q \in 1..args.simulations :
       sim.val.final_portfolio_values[p] # sim.val.final_portfolio_values[q]

C9_PathMatrixRecursion ==
  (args.fn = "asset" /\ sim.st = "returned") =>
    LET m == sim.val.price_paths
    IN  /\ Len(m) = args.days + 1
        /\ \A t \in 1..Len(m) : Len(m[t]) = args.simulations
        /\ \A p \in 1..args.simulations : m[1][p] = FromInt(args.initial_price)
        /\ \A t \in 1..args.days, p \in 1..args.simulations :
             m[t + 1][p] = FMul(m[t][p], FRound(FALSE, <<1>>, OwnDraw(t, p)))

\* two paths over two days or more that end at different prices
C9_Witness ==
  /\ args.fn = "asset" /\ sim.st = "returned"
  /\ args.days >= 2 /\ args.simulations >= 2
  /\ sim.val.price_paths[args.days + 1][1] # sim.val.price_paths[args.days + 1][2]
  /\ sim.val.price_paths[args.days + 1][1].k = "fin"

\* C10: potential_loss is initial_price - percentile_price and
\* potential_loss_percentage is potential_loss / initial_price * 100; a call
\* whose percentile price exceeds the initial price returns, and reports
\* both as negative numbers
C10_LossReportedAsIs ==
  (args.fn = "asset" /\ sim.st # "none") =>
    /\ sim.st = "returned"
    /\ LET r       == sim.val
           initial == FromInt(args.initial_price)
       IN  /\ r.potential_loss = FSub(initial, r.percentile_price)
           /\ r.potential_loss_percentage
                = FMul(FDiv(r.potential_loss, initial), FromInt(100))
           /\ FLess(initial, r.percentile_price) =>
                /\ FLess(r.potential_loss, FZero)
                /\ FLess(r.potential_loss_percentage, FZero)

\* a percentile price above the initial price
C10_Witness ==
  /\ args.fn = "asset" /\ sim.st = "returned"
  /\ FLess(FromInt(args.initial_price), sim.val.percentile_price)
  /\ FLess(sim.val.potential_loss, FZero)
  /\ FLess(sim.val.potential_loss_percentage, FZero)

\* ------------------------------------------------------------------------
\* Validation of the simulators' arguments
\* ------------------------------------------------------------------------

InvalidParameter(out) == out.st = "raised" /\ out.err = "InvalidParameter"

\* C11: simulate_asset_price_monte_carlo fails with InvalidParameter, and
\* returns no result record, whenever initial_price <= 0, sigma < 0,
\* days <= 0 or simulations <= 0
C11_AssetInvalidParameter ==
  (args.fn = "asset" /\ sim.st # "none"
     /\ (args.initial_price <= 0 \/ args.sigma < 0 \/ args.days <= 0
          \/ args.simulations <= 0))
    => InvalidParameter(sim)

\* the coefficients a caller supplied for the pair of a and b, under either
\* ordering of the key
Supplied(correlations, a, b) ==
  {correlations[k] : k \in {<<a, b>>, <<b, a>>} \cap DOMAIN correlations}

\* C12: the correlation matrix of a portfolio call is square over the
\* assets in the insertion order of initial_values' keys, symmetric, 1 on
\* the diagonal, and off the diagonal the coefficient supplied for the pair
\* under either key ordering, or 0 when none is supplied
C12_CorrelationMatrix ==
  (args.fn = "portfolio" /\ sim.st # "none") =>
    LET c == locals.corr_matrix
        n == Len(args.initial_values)
        asset(i) == args.initial_values[i][1]
    IN  /\ Len(c) = n
        /\ \A i \in 1..n :
             /\ Len(c[i]) = n
             /\ c[i][i] = 1
             /\ \A j \in (1..n) \ {i} :
                  /\ c[i][j] = c[j][i]
                  /\ IF Supplied(args.correlations, asset(i), asset(j)) = {}
                       THEN c[i][j] = 0
                     ELSE c[i][j] \in Supplied(args.correlations, asset(i), asset(j))

\* three assets, one pair's coefficient supplied under the reverse
\* ordering only and the other pairs' not at all
C12_Witness ==
  /\ args.fn = "portfolio" /\ sim.st = "returned"
  /\ Keys(args.initial_values) = <<"C", "A", "B">>
  /\ DOMAIN args.correlations = {<<"B", "A">>}
  /\ locals.corr_matrix = << <<1, 0, 0>>, <<0, 1, -1>>, <<0, -1, 1>> >>

\* the values of the first i assets at step t on path p, added up in the
\* order of the assets
RECURSIVE ValueOfAssets(_, _, _, _)
ValueOfAssets(price_paths, t, p, i) ==
  IF i = 0 THEN FZero
  ELSE FAdd(ValueOfAssets(price_paths, t, p, i - 1), price_paths[i][t][p])

\* C14: every entry of portfolio_paths is the plain sum over the assets of
\* the asset's price at that step on that path; row 0 is
\* initial_portfolio_value, the sum of the initial values, on every path;
\* and potential_loss = initial_portfolio_value - percentile_value
C14_PortfolioIsSumOfAssets ==
  (args.fn = "portfolio" /\ sim.st = "returned") =>
    LET r == sim.val
        n == Len(args.initial_values)
    IN  /\ Len(locals.price_paths) = n
        /\ \A t \in 1..(args.days + 1), p \in 1..args.simulations :
             r.portfolio_paths[t][p] = ValueOfAssets(locals.price_paths, t, p, n)
        /\ r.initial_portfolio_value
             = IntSum([i \in 1..n |-> args.initial_values[i][2]])
        /\ \A p \in 1..args.simulations :
             r.portfolio_paths[1][p] = FromInt(r.initial_portfolio_value)
        /\ r.potential_loss
             = FSub(FromInt(r.initial_portfolio_value), r.percentile_value)

\* two assets or more, whose terminal values are finite and positive and
\* add up to more than either
C14_Witness ==
  /\ args.fn = "portfolio" /\ sim.st = "returned"
  /\ Len(args.initial_values) >= 2
  /\ \A i \in 1..Len(args.initial_values) :
       /\ locals.price_paths[i][args.days + 1][1].k = "fin"
       /\ FLess(locals.price_paths[i][args.days + 1][1],
                sim.val.portfolio_paths[args.days + 1][1])
  /\ sim.val.potential_loss.k = "fin"

\* C13: simulate_portfolio_monte_carlo fails with InvalidParameter, and
\* returns no result record, when there is no asset, when a supplied
\* correlation coefficient lies outside [-1, 1], or when an asset has an
\* initial value <= 0 or a volatility < 0
C13_PortfolioInvalidParameter ==
  (args.fn = "portfolio" /\ sim.st # "none"
     /\ (\/ args.initial_values = <<>>
         \/ \E k \in DOMAIN args.correlations :
              args.correlations[k] < -1 \/ args.correlations[k] > 1
         \/ \E i \in 1..Len(args.initial_values) :
              \/ args.initial_values[i][2] <= 0
              \/ args.volatilities[args.initial_values[i][1]] < 0))
    => InvalidParameter(sim)

\* the base a simulator call divides its potential loss by
PercentageBase ==
  IF args.fn = "asset" THEN args.initial_price
  ELSE IntSum([i \in 1..Len(args.initial_values) |-> args.initial_values[i][2]])

\* C15: a simulator call whose base value is zero reports a
\* potential_loss_percentage that is a number (0 under the convention of
\* apply_scenario_to_portfolio and calculate_loan_portfolio_risk), never
\* nan or an infinity, and raises no division fault
C15_ZeroBasePercentage ==
  (args.fn # "none" /\ sim.st # "none" /\ args.days > 0 /\ args.simulations > 0
     /\ PercentageBase = 0) =>
    /\ sim.st = "returned"
    /\ sim.val.potential_loss_percentage = FZero

\* what a call with the arguments a returns when no other call runs
Alone(a) ==
  IF a.fn = "asset"
  THEN simulate_asset_price_monte_carlo(np_random_seed(0), a.initial_price, a.mu,
         a.sigma, a.days, a.simulations, a.percentile).out
  ELSE simulate_portfolio_monte_carlo(np_random_seed(0), a.initial_values,
         a.expected_returns, a.volatilities, a.correlations, a.days,
         a.simulations, a.percentile).out

\* C16: a call that ran concurrently with another call, their seeding and
\* drawing steps interleaved in any order, returns the path matrix and the
\* statistics it returns when run alone
C16_ConcurrentSameAsAlone ==
  \A w \in Workers :
    workers[w].pc = "done" => workers[w].out = Alone(workers[w].args)

\* C17: a simulator call leaves the process-wide generator in the state it
\* found it in
C17_GeneratorUnchanged ==
  [][(CallSimulateAsset \/ CallSimulatePortfolio) => rng' = rng]_vars

\* ------------------------------------------------------------------------
\* The risk register
\* ------------------------------------------------------------------------

\* C18: in every register reachable from create_risk_register() by
\* add_risk_to_register and update_risk_status calls, no two entries have
\* the same id
C18_UniqueRiskIds ==
  \A i, j \in 1..Len(register) : register[i].id = register[j].id => i = j

\* the places of the entries of a register that carry an id
PlacesOf(entries, risk_id) == {i \in 1..Len(entries) : entries[i].id = risk_id}

FirstPlaceOf(entries, risk_id) ==
  CHOOSE i \in PlacesOf(entries, risk_id) : \A j \in PlacesOf(entries, risk_id) : i <= j

\* after is before but for the status of the entry at one place
OnlyStatusAt(before, after, place, new_status) ==
  /\ Len(after) = Len(before)
  /\ \A i \in 1..Len(before) : i # place => after[i] = before[i]
  /\ DOMAIN after[place] = DOMAIN before[place]
  /\ \A field \in DOMAIN before[place] \ {"status"} :
       after[place][field] = before[place][field]
  /\ after[place].status = new_status

UpdateFrame(before, after, risk_id, new_status) ==
  IF PlacesOf(before, risk_id) = {} THEN after = before
  ELSE OnlyStatusAt(before, after, FirstPlaceOf(before, risk_id), new_status)

\* C21: update_risk_status changes only the status of the first entry with
\* the id: length, order, that entry's other fields and every other entry,
\* later entries with the same id among them, stay as they were; with no
\* entry of that id the register stays as it was and nothing is raised
C21_UpdateChangesOneStatus ==
  [][UpdateRiskStatus => UpdateFrame(register, register', call'.risk_id, call'.status)]_vars

\* an update has just been made on a register holding the id twice: the
\* first entry has the new status, the later one the status it was added with
C21_Witness ==
  /\ call.op = "update"
  /\ \E i, j \in PlacesOf(register, call.risk_id) :
       /\ i < j
       /\ i = FirstPlaceOf(register, call.risk_id)
       /\ register[i].status = call.status
       /\ register[j].status # call.status

AddFrame(before, after, risk_id, status) ==
  /\ Len(after) = Len(before) + 1
  /\ SubSeq(after, 1, Len(before)) = before
  /\ after[Len(after)].id = risk_id
  /\ after[Len(after)].status = (IF status = NotGiven THEN "Open" ELSE status)
  /\ after[Len(after)].priority = "Not set"

InInsertionOrder ==
  /\ Len(register) = Len(inserted)
  /\ \A i \in 1..Len(register) : register[i].id = inserted[i]

\* C22: each add_risk_to_register call appends exactly one entry at the end,
\* with status "Open" unless one is given and priority "Not set", leaving
\* the earlier entries as they were and in order; so after any adds and
\* updates the register is as long as the number of add calls and its
\* entries are in insertion order
C22_AddAppendsOne ==
  /\ []InInsertionOrder
  /\ [][AddRisk => AddFrame(register, register', call'.risk_id, call'.status)]_vars

\* a risk added without a status after an update of an earlier one
C22_Witness ==
  /\ call.op = "add"
  /\ call.status = NotGiven
  /\ Len(register) = MaxRisks
  /\ register[Len(register)].status = "Open"
  /\ \E i \in 1..(Len(register) - 1) : register[i].status \in NewStatuses

\* ------------------------------------------------------------------------
\* The probability and impact matrix
\* ------------------------------------------------------------------------

\* M = len(likelihood_scale) + len(impact_scale) - 2
SpanOfScales == Len(likelihood_scale) + Len(impact_scale) - 2

\* the level the stated thresholds give the sum s of the scores, in
\* quarters of M
LevelByQuarters(s, M) ==
  CASE 4 * s >= 3 * M -> "Critical"
    [] 4 * s >= 2 * M /\ 4 * s < 3 * M -> "High"
    [] 4 * s >= M /\ 4 * s < 2 * M -> "Medium"
    [] OTHER -> "Low"

LevelRank(level) ==
  CASE level = "Low" -> 0 [] level = "Medium" -> 1 [] level = "High" -> 2
    [] level = "Critical" -> 3

InRange(risk) ==
  /\ 0 <= risk.likelihood_score /\ risk.likelihood_score < Len(likelihood_scale)
  /\ 0 <= risk.impact_score /\ risk.impact_score < Len(impact_scale)

BothMaximum(risk) ==
  /\ risk.likelihood_score = Len(likelihood_scale) - 1
  /\ risk.impact_score = Len(impact_scale) - 1

BothZero(risk) == risk.likelihood_score = 0 /\ risk.impact_score = 0

MatrixCalled == matrix.st = "returned"

\* every risk has the level of the thresholds, the one with both maximum
\* scores is Critical, and the level never falls as the sum of scores rises
\* (from each sum to the next, hence from any sum to any greater one)
LevelsAsStated ==
  /\ Len(matrix.val) = Len(risks_data)
  /\ \A k \in 1..Len(risks_data) :
       /\ matrix.val[k].risk_level =
            LevelByQuarters(risks_data[k].likelihood_score + risks_data[k].impact_score,
                            SpanOfScales)
       /\ InRange(risks_data[k]) /\ BothMaximum(risks_data[k])
            => matrix.val[k].risk_level = "Critical"
  /\ \A s \in (-2)..(2 * MaxLevels) :
       LevelRank(risk_level_of(s, SpanOfScales))
         <= LevelRank(risk_level_of(s + 1, SpanOfScales))

\* C23 as stated: the in-range risk with scores (0, 0) is Low whatever the
\* scales
C23_AsStated ==
  MatrixCalled =>
    /\ LevelsAsStated
    /\ \A k \in 1..Len(risks_data) :
         InRange(risks_data[k]) /\ BothZero(risks_data[k])
           => matrix.val[k].risk_level = "Low"

\* C23: with M = len(likelihood_scale) + len(impact_scale) - 2 and s the sum
\* of the two scores, a risk is Critical iff s >= 0.75*M, High iff
\* 0.5*M <= s < 0.75*M, Medium iff 0.25*M <= s < 0.5*M and Low otherwise;
\* for in-range scores the risk with both maximum scores is Critical, the
\* risk with scores (0, 0) is Low when M > 0 and Critical when M = 0, and
\* the level never decreases when s increases
C23_RiskLevels ==
  MatrixCalled =>
    /\ LevelsAsStated
    /\ \A k \in 1..Len(risks_data) :
         InRange(risks_data[k]) /\ BothZero(risks_data[k])
           => matrix.val[k].risk_level =
                (IF SpanOfScales > 0 THEN "Low" ELSE "Critical")

\* the demonstration: a sum of 6 on scales with M = 8 is Critical, at the
\* threshold, and the sums 4 and 5 are High
C23_Witness ==
  /\ MatrixCalled
  /\ risks_data = DemoRisksForMatrix
  /\ likelihood_scale = DemoLikelihoodScale
  /\ impact_scale = DemoImpactScale
  /\ [k \in 1..Len(matrix.val) |-> matrix.val[k].risk_level]
       = <<"Critical", "High", "High", "High">>

\* ------------------------------------------------------------------------
\* The credit score
\* ------------------------------------------------------------------------

OnScale(x) == FLeq(FZero, x) /\ FLeq(x, FromInt(100))

\* the rating the thresholds 800/740/670/580 give a score
RatingByThresholds(n) ==
  CASE n >= 800 -> "Excellent"
    [] n >= 740 /\ n < 800 -> "Very Good"
    [] n >= 670 /\ n < 740 -> "Good"
    [] n >= 580 /\ n < 670 -> "Fair"
    [] n < 580 -> "Poor"

\* C19 as stated: whatever the figures, the four component scores lie
\* within 0..100, the credit score is an integer within 300..850, and the
\* rating is the one the thresholds 800/740/670/580 give
C19_AsStated ==
  score.st # "none" =>
    /\ score.st = "returned"
    /\ OnScale(score.val.components.payment_history)
    /\ OnScale(score.val.components.credit_utilization)
    /\ OnScale(score.val.components.debt_to_income)
    /\ OnScale(score.val.components.credit_history_length)
    /\ score.val.credit_score \in 300..850
    /\ score.val.rating = RatingByThresholds(score.val.credit_score)

\* C19: the utilization, debt-to-income and history-length scores lie
\* within 0..100 and the rating is the one the thresholds give the score,
\* whatever the figures; the payment-history score is the payment_history
\* handed in, and with a payment_history within 0..100 the credit score is
\* an integer within 300..850
C19_ScoreOnScale ==
  score.st # "none" =>
    /\ score.st = "returned"
    /\ score.val.components.payment_history = FromInt(applicant.payment_history)
    /\ OnScale(score.val.components.credit_utilization)
    /\ OnScale(score.val.components.debt_to_income)
    /\ OnScale(score.val.components.credit_history_length)
    /\ score.val.credit_score \in Int
    /\ applicant.payment_history \in 0..100 => score.val.credit_score \in 300..850
    /\ score.val.rating = RatingByThresholds(score.val.credit_score)

\* the best applicant there can be, at 850
C19_Witness ==
  /\ score.st = "returned"
  /\ applicant.payment_history = 100 /\ applicant.credit_utilization <= 0
  /\ applicant.debt = 0 /\ applicant.income > 0
  /\ applicant.credit_history_length >= 10
  /\ score.val.credit_score = 850
  /\ score.val.rating = "Excellent"


\* the per-asset impact_amount values added up, in the portfolio's order
SumOfImpacts(asset_impacts) ==
  SeqSum(FZero, [i \in 1..Len(asset_impacts) |-> asset_impacts[i][2].impact_amount])

\* what a call with two non-empty arguments returns, the total aside: the
\* portfolio's keys, value * (1 + shock) for an asset of the scenario and
\* the value itself for any other, and the portfolio as it was handed in
StressedAsStated(result) ==
  /\ Len(result.stressed_portfolio) = Len(portfolio)
  /\ \A i \in 1..Len(portfolio) :
       /\ result.stressed_portfolio[i][1] = portfolio[i][1]
       /\ result.asset_impacts[i][1] = portfolio[i][1]
       /\ FCmp(result.stressed_portfolio[i][2],
               IF portfolio[i][1] \in DOMAIN scenario_shocks
                 THEN FMul(FromInt(portfolio[i][2]),
                           FAdd(FromInt(1), Lit(scenario_shocks[portfolio[i][1]], 100)))
               ELSE FromInt(portfolio[i][2])) = 0
  /\ result.original_portfolio = portfolio

StressCalled == stressed.st # "none"

EitherEmpty == portfolio = <<>> \/ DOMAIN scenario_shocks = {}

\* C20 as stated: total_impact is the very float the per-asset
\* impact_amount values add up to
C20_AsStated ==
  StressCalled =>
    IF EitherEmpty THEN stressed = Returned(None)
    ELSE /\ stressed.st = "returned"
         /\ StressedAsStated(stressed.val)
         /\ FCmp(stressed.val.total_impact,
                 SumOfImpacts(stressed.val.asset_impacts)) = 0

\* C20: with a non-empty portfolio and a non-empty scenario,
\* apply_scenario_to_portfolio returns a stressed_portfolio with exactly
\* the portfolio's keys, each value being value * (1 + shock) with shock 0
\* for an asset the scenario leaves out and scenario assets nobody holds
\* ignored; total_impact equals the sum of the per-asset impact_amount
\* values up to the rounding of the float sums; the portfolio handed in is
\* unchanged; and with either argument empty it returns None
C20_StressedPortfolio ==
  StressCalled =>
    IF EitherEmpty THEN stressed = Returned(None)
    ELSE /\ stressed.st = "returned"
         /\ StressedAsStated(stressed.val)
         /\ Near(stressed.val.total_impact,
                 SumOfImpacts(stressed.val.asset_impacts), Rounding)

\* a holding the scenario names, one it leaves out and a scenario asset
\* nobody holds, the total and the summed impacts being different floats
C20_Witness ==
  /\ stressed.st = "returned"
  /\ stressed.val # None
  /\ \E i, j \in 1..Len(portfolio) :
       /\ portfolio[i][1] \in DOMAIN scenario_shocks
       /\ portfolio[j][1] \notin DOMAIN scenario_shocks
  /\ "Gold" \in DOMAIN scenario_shocks
  /\ FCmp(stressed.val.total_impact, FromInt(0)) # 0

\* ------------------------------------------------------------------------
\* The five whys
\* ------------------------------------------------------------------------

Interactive == whys_arg = WhysNone /\ pc # "idle"

\* a step of the loop, the replies given being the ones that carry it on:
\* an empty answer ends it and records nothing, any other answer is
\* recorded; a reply that carries on brings the next question while there
\* is one to ask, any other reply ends the loop; once the loop is left
\* nothing more is asked or recorded
LoopSteps(carrying_on) ==
  /\ pc = "answer" =>
       IF typed' = ""
         THEN pc' = "results" /\ whys' = whys /\ asked' = asked
       ELSE /\ pc' = "continue"
            /\ asked' = asked
            /\ SubSeq(whys', 1, Len(whys)) = whys
            /\ Len(whys') = Len(whys) + 1
            /\ whys'[Len(whys')].answer = typed'
  /\ pc = "continue" =>
       /\ whys' = whys
       /\ IF typed' \in carrying_on /\ why_number < max_whys
            THEN pc' = "answer" /\ asked' = asked + 1
          ELSE pc' = "results" /\ asked' = asked
  /\ pc = "results" => pc' = "done" /\ whys' = whys /\ asked' = asked

\* the result names the last recorded answer, or that there is none
RootCauseIsLastAnswer ==
  pc = "done" =>
    /\ five_whys.st = "returned"
    /\ five_whys.val.whys = whys
    /\ five_whys.val.root_cause =
         (IF Len(whys) = 0 THEN "No root cause identified"
          ELSE whys[Len(whys)].answer)

\* C24 as stated: at most max_whys questions, and any reply other than
\* 'y' ends the loop
C24_AsStated ==
  /\ [](Interactive => asked <= max_whys)
  /\ [][LoopSteps({"y"})]_vars
  /\ []RootCauseIsLastAnswer
  /\ (pc = "results" ~> pc = "done")

\* C24: with whys=None perform_5whys asks at most max_whys questions (none
\* when max_whys is below 1), stops at the first empty answer or the first
\* continuation reply that is not 'y' once lower-cased ('y' and 'Y' carry
\* on), and then always ends with a result; in every mode root_cause is the
\* answer of the last recorded why, or "No root cause identified" when no
\* why was recorded
C24_FiveWhys ==
  /\ [](Interactive => asked <= (IF max_whys < 0 THEN 0 ELSE max_whys))
  /\ [][LoopSteps({"y", "Y"})]_vars
  /\ []RootCauseIsLastAnswer
  /\ (pc = "results" ~> pc = "done")

\* an interactive analysis that asked all its questions, the last reply
\* being 'Y', and returned the last answer as the root cause
C24_Witness ==
  /\ pc = "done"
  /\ whys_arg = WhysNone
  /\ typed = "Y"
  /\ asked = max_whys
  /\ asked >= 2
  /\ Len(whys) = asked
  /\ five_whys.val.root_cause = whys[Len(whys)].answer

====
